---- MODULE Spec2Model ----
(***************************************************************************)
(* glyph-mind: the streaming text-generation client.                       *)
(*                                                                         *)
(* One Stream call of one adapter (groq, ollama, claude): the synchronous  *)
(* POST (doPost), the producer goroutine that scans the response body and  *)
(* sends text fragments on a buffered channel, the consumer that receives  *)
(* from the channel, the context's cancellation, and the remote end that   *)
(* delivers the body line by line.                                         *)
(***************************************************************************)
EXTENDS Integers, Sequences, FiniteSets, TLC

\* ---------------------------------------------------------------- bounds
\* Most lines the remote delivers on one response body.
MaxBody == 3
\* Length of the long all-text body used to fill the channel buffer.
LongBody == 66

\* ------------------------------------------------------ program constants
\* make(chan string, 64)
ChanCap == 64
\* if resp.StatusCode >= 400
ErrorStatus == 400

\* ------------------------------------------------------- texts and errors
\* A text is a sequence of tokens; the nil error is the empty sequence.
Nil == <<>>

RECURSIVE Digits(_)
\* fmt's %d of a non-negative integer: its decimal digits.
Digits(n) ==
    LET d == <<"0", "1", "2", "3", "4", "5", "6", "7", "8", "9">>[(n % 10) + 1]
    IN  IF n < 10 THEN <<d>> ELSE Append(Digits(n \div 10), d)

\* strings.Contains on token sequences.
Contains(s, sub) ==
    \E i \in 0..(Len(s) - Len(sub)) : SubSeq(s, i + 1, i + Len(sub)) = sub

IsPrefix(p, s) == Len(p) <= Len(s) /\ SubSeq(s, 1, Len(p)) = p

\* ------------------------------------------------------------ wire model
\* A JSON payload is a record of the fields the three decoders look at; a
\* field that is absent from the object decodes to Go's zero value.  A
\* payload that is not valid JSON carries its text in word.
JsonObject(choices, content, done, dtype, dtext) ==
    [json |-> TRUE, word |-> "", choices |-> choices, content |-> content,
     done |-> done, dtype |-> dtype, dtext |-> dtext]
NotJson(w) ==
    [json |-> FALSE, word |-> w, choices |-> <<>>, content |-> "",
     done |-> FALSE, dtype |-> "", dtext |-> ""]

\* finish_reason is a *string: <<>> is null, <<s>> points to s.
Choice(content, finish) == [content |-> content, finish |-> finish]
GroqFrame(choices) == JsonObject(choices, "", FALSE, "", "")
OllamaFrame(content, done) == JsonObject(<<>>, content, done, "", "")
ClaudeFrame(dtype, dtext) == JsonObject(<<>>, "", FALSE, dtype, dtext)

\* A line of the body: its prefix ("data:", "event:" or none), whether
\* white space surrounds what follows the prefix, and what follows.
Line(pre, pad, payload) == [pre |-> pre, pad |-> pad, payload |-> payload]

\* strings.HasPrefix(line, p)
HasPrefix(line, p) == line.pre = p
\* strings.TrimPrefix(line, p): the rest of the line, white space included.
TrimPrefix(line, p) == [pad |-> line.pad, payload |-> line.payload]
\* strings.TrimSpace
TrimSpace(rest) == [pad |-> FALSE, payload |-> rest.payload]
\* the string literal s, as TrimSpace would return it
Literal(s) == [pad |-> FALSE, payload |-> NotJson(s)]

\* json.Unmarshal(data, &msg): an error for anything but a JSON value,
\* white space around the value is accepted.
Unmarshal(rest) ==
    [err |-> ~rest.payload.json,
     msg |-> IF rest.payload.json THEN rest.payload
             ELSE JsonObject(<<>>, "", FALSE, "", "")]

\* scanner.Bytes() of the NDJSON scanner: the whole line, prefix included.
WholeLine(line) ==
    IF line.pre = "" THEN [pad |-> line.pad, payload |-> line.payload]
    ELSE [pad |-> line.pad, payload |-> NotJson(line.pre)]

\* ---------------------------------------------------- what the remote sends
GroqLines ==
    { Line("data:", TRUE, GroqFrame(<<Choice("a", <<>>)>>)),
      Line("data:", TRUE, GroqFrame(<<Choice("b", <<>>)>>)),
      Line("data:", TRUE, GroqFrame(<<Choice("", <<>>)>>)),
      Line("data:", TRUE, GroqFrame(<<Choice("b", <<"stop">>)>>)),
      Line("data:", TRUE, NotJson("[DONE]")),
      Line("data:", TRUE, NotJson("{")),
      Line("", FALSE, NotJson("")) }

OllamaLines ==
    { Line("", FALSE, OllamaFrame("a", FALSE)),
      Line("", FALSE, OllamaFrame("b", FALSE)),
      Line("", FALSE, OllamaFrame("", FALSE)),
      Line("", FALSE, OllamaFrame("b", TRUE)),
      Line("", FALSE, OllamaFrame("", TRUE)),
      Line("", FALSE, NotJson("{")) }

ClaudeLines ==
    { Line("event:", TRUE, NotJson("content_block_delta")),
      Line("event:", TRUE, NotJson("message_stop")),
      Line("event:", TRUE, NotJson("ping")),
      Line("data:", TRUE, ClaudeFrame("text_delta", "a")),
      Line("data:", TRUE, ClaudeFrame("text_delta", "b")),
      Line("data:", TRUE, ClaudeFrame("text_delta", "")),
      Line("data:", TRUE, NotJson("{")),
      Line("", FALSE, NotJson("")) }

Adapters == {"groq", "ollama", "claude"}

Lines(a) ==
    CASE a = "groq" -> GroqLines
      [] a = "ollama" -> OllamaLines
      [] a = "claude" -> ClaudeLines

\* A response whose first LongBody lines are there as soon as the producer
\* starts, each data line carrying a text: more than the channel can hold.
TextLine(a, t) ==
    CASE a = "groq" -> Line("data:", TRUE, GroqFrame(<<Choice(t, <<>>)>>))
      [] a = "ollama" -> Line("", FALSE, OllamaFrame(t, FALSE))
      [] a = "claude" -> Line("data:", TRUE, ClaudeFrame("text_delta", t))
LongLine(a, i) ==
    IF i = 1 /\ a = "claude"
    THEN Line("event:", TRUE, NotJson("content_block_delta"))
    ELSE TextLine(a, IF i % 2 = 0 THEN "a" ELSE "b")

\* ------------------------------------------------------ frame decoding
\* The verdict on one line: the text to send ("" when there is none),
\* whether the producer returns once that is done, and the event type
\* carried to the next line.
Verdict(text, ret, ev) == [text |-> text, ret |-> ret, ev |-> ev]

\* The closure looking for "stop" in every choice, not only the first.
extractDeltaAnyChoice(data) ==
    LET u == Unmarshal(data)
    IN  IF u.err THEN [delta |-> "", done |-> FALSE, err |-> TRUE]
        ELSE IF Len(u.msg.choices) = 0
             THEN [delta |-> "", done |-> FALSE, err |-> FALSE]
        ELSE LET choice == u.msg.choices[1]
             IN  IF \E k \in 1..Len(u.msg.choices) :
                        u.msg.choices[k].finish = <<"stop">>
                 THEN [delta |-> "", done |-> TRUE, err |-> FALSE]
                 ELSE [delta |-> choice.content, done |-> FALSE, err |-> FALSE]

\* The extractDelta closure groqClient.Stream hands to sseStream.
extractDelta(data) ==
    LET u == Unmarshal(data)
    IN  IF u.err THEN [delta |-> "", done |-> FALSE, err |-> TRUE]
        ELSE IF Len(u.msg.choices) = 0
             THEN [delta |-> "", done |-> FALSE, err |-> FALSE]
        ELSE LET choice == u.msg.choices[1]
             IN  IF choice.finish = <<"stop">>
                 THEN [delta |-> "", done |-> TRUE, err |-> FALSE]
                 ELSE [delta |-> choice.content, done |-> FALSE, err |-> FALSE]

\* sseStream's loop body sending the text of the frame before it looks at
\* the terminal signal, as ollamaClient.Stream does.
sseLineContentFirst(line, ev) ==
    IF ~HasPrefix(line, "data:") THEN Verdict("", FALSE, ev)
    ELSE LET payload == TrimSpace(TrimPrefix(line, "data:"))
         IN  IF payload = Literal("[DONE]") THEN Verdict("", TRUE, ev)
             ELSE LET u == Unmarshal(payload)
                  IN  IF u.err THEN Verdict("", FALSE, ev)
                      ELSE IF Len(u.msg.choices) = 0 THEN Verdict("", FALSE, ev)
                      ELSE Verdict(u.msg.choices[1].content,
                                   u.msg.choices[1].finish = <<"stop">>, ev)

\* sseStream's loop body comparing the payload with the sentinel before
\* strings.TrimSpace.
sseLineNoTrim(line, ev) ==
    IF ~HasPrefix(line, "data:") THEN Verdict("", FALSE, ev)
    ELSE LET payload == TrimPrefix(line, "data:")
         IN  IF payload = Literal("[DONE]") THEN Verdict("", TRUE, ev)
             ELSE LET d == extractDelta(payload)
                  IN  IF d.err THEN Verdict("", FALSE, ev)
                      ELSE IF d.done THEN Verdict("", TRUE, ev)
                      ELSE Verdict(d.delta, FALSE, ev)

\* sseStream's loop body returning on a decode error instead of skipping
\* the line.
sseLineAbortOnError(line, ev) ==
    IF ~HasPrefix(line, "data:") THEN Verdict("", FALSE, ev)
    ELSE LET payload == TrimSpace(TrimPrefix(line, "data:"))
         IN  IF payload = Literal("[DONE]") THEN Verdict("", TRUE, ev)
             ELSE LET d == extractDelta(payload)
                  IN  IF d.err THEN Verdict("", TRUE, ev)
                      ELSE IF d.done THEN Verdict("", TRUE, ev)
                      ELSE Verdict(d.delta, FALSE, ev)

\* sseStream's loop body after the cancellation check.
sseLine(line, ev) ==
    IF ~HasPrefix(line, "data:") THEN Verdict("", FALSE, ev)
    ELSE LET payload == TrimSpace(TrimPrefix(line, "data:"))
         IN  IF payload = Literal("[DONE]") THEN Verdict("", TRUE, ev)
             ELSE LET d == extractDelta(payload)
                  IN  IF d.err THEN Verdict("", FALSE, ev)
                      ELSE IF d.done THEN Verdict("", TRUE, ev)
                      ELSE Verdict(d.delta, FALSE, ev)

\* The loop body looking at msg.Done before it sends the content.
ollamaLineDoneFirst(line, ev) ==
    LET u == Unmarshal(WholeLine(line))
    IN  IF u.err THEN Verdict("", FALSE, ev)
        ELSE IF u.msg.done THEN Verdict("", TRUE, ev)
        ELSE Verdict(u.msg.content, FALSE, ev)

\* ollamaClient.Stream's loop body after the cancellation check: the
\* content is sent first, msg.Done is looked at after the send.
ollamaLine(line, ev) ==
    LET u == Unmarshal(WholeLine(line))
    IN  IF u.err THEN Verdict("", FALSE, ev)
        ELSE Verdict(u.msg.content, u.msg.done, ev)

\* The loop body forgetting the event type on a line that is neither an
\* event: nor a data: line, as an event-stream parser does on the blank
\* line that ends an event.
claudeLineBlankResets(line, ev) ==
    IF HasPrefix(line, "event:")
    THEN Verdict("", FALSE, TrimSpace(TrimPrefix(line, "event:")))
    ELSE IF HasPrefix(line, "data:")
    THEN LET payload == TrimSpace(TrimPrefix(line, "data:"))
         IN  IF ev = Literal("content_block_delta")
             THEN LET u == Unmarshal(payload)
                  IN  IF u.err THEN Verdict("", FALSE, ev)
                      ELSE IF u.msg.dtype = "text_delta" /\ u.msg.dtext # ""
                      THEN Verdict(u.msg.dtext, FALSE, ev)
                      ELSE Verdict("", FALSE, ev)
             ELSE IF ev = Literal("message_stop") THEN Verdict("", TRUE, ev)
             ELSE Verdict("", FALSE, ev)
    ELSE Verdict("", FALSE, Literal(""))

\* The loop body without case "message_stop".
claudeLineNoStop(line, ev) ==
    IF HasPrefix(line, "event:")
    THEN Verdict("", FALSE, TrimSpace(TrimPrefix(line, "event:")))
    ELSE IF HasPrefix(line, "data:")
    THEN LET payload == TrimSpace(TrimPrefix(line, "data:"))
         IN  IF ev = Literal("content_block_delta")
             THEN LET u == Unmarshal(payload)
                  IN  IF u.err THEN Verdict("", FALSE, ev)
                      ELSE IF u.msg.dtype = "text_delta" /\ u.msg.dtext # ""
                      THEN Verdict(u.msg.dtext, FALSE, ev)
                      ELSE Verdict("", FALSE, ev)
             ELSE Verdict("", FALSE, ev)
    ELSE Verdict("", FALSE, ev)

\* The loop body without the delta.Delta.Type == "text_delta" test.
claudeLineAnyType(line, ev) ==
    IF HasPrefix(line, "event:")
    THEN Verdict("", FALSE, TrimSpace(TrimPrefix(line, "event:")))
    ELSE IF HasPrefix(line, "data:")
    THEN LET payload == TrimSpace(TrimPrefix(line, "data:"))
         IN  IF ev = Literal("content_block_delta")
             THEN LET u == Unmarshal(payload)
                  IN  IF u.err THEN Verdict("", FALSE, ev)
                      ELSE IF u.msg.dtext # ""
                      THEN Verdict(u.msg.dtext, FALSE, ev)
                      ELSE Verdict("", FALSE, ev)
             ELSE IF ev = Literal("message_stop") THEN Verdict("", TRUE, ev)
             ELSE Verdict("", FALSE, ev)
    ELSE Verdict("", FALSE, ev)

\* claudeClient.Stream's loop body after the cancellation check.
claudeLine(line, ev) ==
    IF HasPrefix(line, "event:")
    THEN Verdict("", FALSE, TrimSpace(TrimPrefix(line, "event:")))
    ELSE IF HasPrefix(line, "data:")
    THEN LET payload == TrimSpace(TrimPrefix(line, "data:"))
         IN  IF ev = Literal("content_block_delta")
             THEN LET u == Unmarshal(payload)
                  IN  IF u.err THEN Verdict("", FALSE, ev)
                      ELSE IF u.msg.dtype = "text_delta" /\ u.msg.dtext # ""
                      THEN Verdict(u.msg.dtext, FALSE, ev)
                      ELSE Verdict("", FALSE, ev)
             ELSE IF ev = Literal("message_stop") THEN Verdict("", TRUE, ev)
             ELSE Verdict("", FALSE, ev)
    ELSE Verdict("", FALSE, ev)

\* The loop body of adapter a's producer.
ProcessLine(a, line, ev) ==
    CASE a = "groq" -> sseLine(line, ev)
      [] a = "ollama" -> ollamaLine(line, ev)
      [] a = "claude" -> claudeLine(line, ev)

\* var currentEvent string
NoEvent == Literal("")

RECURSIVE FragmentsFrom(_, _, _, _)
\* The non-empty texts of lines i.. of a body, up to and including the
\* first line on which the producer returns.
FragmentsFrom(a, lines, i, ev) ==
    IF i > Len(lines) THEN <<>>
    ELSE LET v == ProcessLine(a, lines[i], ev)
             here == IF v.text # "" THEN <<v.text>> ELSE <<>>
         IN  IF v.ret THEN here
             ELSE here \o FragmentsFrom(a, lines, i + 1, v.ev)

Fragments(a, lines) == FragmentsFrom(a, lines, 1, NoEvent)

RECURSIVE TerminalAt(_, _, _, _)
\* The index of the first line on which the producer returns, 0 if none.
TerminalAt(a, lines, i, ev) ==
    IF i > Len(lines) THEN 0
    ELSE LET v == ProcessLine(a, lines[i], ev)
         IN  IF v.ret THEN i ELSE TerminalAt(a, lines, i + 1, v.ev)

\* ------------------------------------------------------------- transport
\* What http.DefaultClient.Do can come back with: no response (fail names
\* the step that failed), or a response with a status and, for an error
\* status, the text that io.ReadAll gets out of its body.
Statuses == {200, 399, 400, 404, 500}
ErrTexts == {<<>>, <<"server error">>, <<"4", "0", "0">>}
NoResponse(step) == [fail |-> step, status |-> 0, text |-> <<>>]
Response(status, text) == [fail |-> "", status |-> status, text |-> text]
Responses(statuses) ==
    {NoResponse("create request"), NoResponse("request")}
    \cup {Response(s, <<>>) : s \in {s \in statuses : s < ErrorStatus}}
    \cup {Response(s, t) : s \in {s \in statuses : s >= ErrorStatus},
                           t \in ErrTexts}

\* doPost sending the request a second time when the first attempt fails.
doPostRetry(r) ==
    IF r.fail # ""
    THEN [err |-> <<"mind: ", r.fail, ": ", "cause">>, open |-> FALSE,
          posts |-> IF r.fail = "request" THEN 2 ELSE 0,
          reads |-> 0, closes |-> 0]
    ELSE IF r.status >= ErrorStatus
    THEN [err |-> <<"mind: server returned ">> \o Digits(r.status)
                  \o <<": ">> \o r.text,
          open |-> FALSE, posts |-> 1, reads |-> 1, closes |-> 1]
    ELSE [err |-> Nil, open |-> TRUE, posts |-> 1, reads |-> 0, closes |-> 0]

\* doPost with the status test off by one: 400 passes for a success.
doPostOffByOne(r) ==
    IF r.fail # ""
    THEN [err |-> <<"mind: ", r.fail, ": ", "cause">>, open |-> FALSE,
          posts |-> IF r.fail = "request" THEN 1 ELSE 0,
          reads |-> 0, closes |-> 0]
    ELSE IF r.status > ErrorStatus
    THEN [err |-> <<"mind: server returned ">> \o Digits(r.status)
                  \o <<": ">> \o r.text,
          open |-> FALSE, posts |-> 1, reads |-> 1, closes |-> 1]
    ELSE [err |-> Nil, open |-> TRUE, posts |-> 1, reads |-> 0, closes |-> 0]

\* doPost without resp.Body.Close() on the error path.
doPostLeak(r) ==
    IF r.fail # ""
    THEN [err |-> <<"mind: ", r.fail, ": ", "cause">>, open |-> FALSE,
          posts |-> IF r.fail = "request" THEN 1 ELSE 0,
          reads |-> 0, closes |-> 0]
    ELSE IF r.status >= ErrorStatus
    THEN [err |-> <<"mind: server returned ">> \o Digits(r.status)
                  \o <<": ">> \o r.text,
          open |-> FALSE, posts |-> 1, reads |-> 1, closes |-> 0]
    ELSE [err |-> Nil, open |-> TRUE, posts |-> 1, reads |-> 0, closes |-> 0]

\* doPost: the error it returns (Nil for none), whether it hands the open
\* body to its caller, and how often it read and closed the body itself.
doPost(r) ==
    IF r.fail # ""
    THEN [err |-> <<"mind: ", r.fail, ": ", "cause">>, open |-> FALSE,
          posts |-> IF r.fail = "request" THEN 1 ELSE 0,
          reads |-> 0, closes |-> 0]
    ELSE IF r.status >= ErrorStatus
    THEN [err |-> <<"mind: server returned ">> \o Digits(r.status)
                  \o <<": ">> \o r.text,
          open |-> FALSE, posts |-> 1, reads |-> 1, closes |-> 1]
    ELSE [err |-> Nil, open |-> TRUE, posts |-> 1, reads |-> 0, closes |-> 0]

\* ------------------------------------------------------- provider factory
\* A provider name is a sequence of characters.
UpperCase == <<"A", "C", "D", "E", "G", "L", "M", "O", "P", "Q", "R", "T", "U">>
LowerCase == <<"a", "c", "d", "e", "g", "l", "m", "o", "p", "q", "r", "t", "u">>

\* The provider name compared as it was given.
ToLowerNot(s) == s

\* strings.ToLower, character by character.
ToLower(s) ==
    [i \in 1..Len(s) |->
        IF \E k \in 1..Len(UpperCase) : UpperCase[k] = s[i]
        THEN LowerCase[CHOOSE k \in 1..Len(UpperCase) : UpperCase[k] = s[i]]
        ELSE s[i]]

\* fmt's %q: the string between double quotes, a double quote or a
\* backslash inside it escaped with a backslash.
RECURSIVE Escaped(_)
Escaped(s) ==
    IF s = <<>> THEN <<>>
    ELSE (IF Head(s) \in {"\"", "\\"} THEN <<"\\", Head(s)>> ELSE <<Head(s)>>)
         \o Escaped(Tail(s))
Quote(s) == <<"\"">> \o Escaped(s) \o <<"\"">>

\* core.Config, the fields the factory reads.
Config(provider, model, key, host) ==
    [AIProvider |-> provider, AIModel |-> model, APIKey |-> key,
     OllamaHost |-> host]

\* ollama_host values: none, a base URL, the same with one and with two
\* trailing slashes, and a lone slash.
Hosts ==
    { <<>>,
      <<"http:", "/", "/", "host">>,
      <<"http:", "/", "/", "host", "/">>,
      <<"http:", "/", "/", "host", "/", "/">>,
      <<"/">> }

ProviderNames ==
    { <<>>,
      <<"g", "r", "o", "q">>,
      <<"G", "R", "O", "Q">>,
      <<"G", "r", "o", "q">>,
      <<"o", "l", "l", "a", "m", "a">>,
      <<"O", "l", "l", "a", "m", "a">>,
      <<"c", "l", "a", "u", "d", "e">>,
      <<"C", "L", "A", "U", "D", "E">>,
      <<"g", "p", "t">>,
      <<"G", "P", "T">>,
      <<"g", "r", "o">>,
      <<" ", "g", "r", "o", "q">>,
      <<"g", "r", "o", "q", "\"">> }

Configs ==
    { Config(p, m, k, h) : p \in ProviderNames, m \in {"", "model"},
                           k \in {"", "key"}, h \in Hosts }

\* The Client the factory returns: nil, or one of the three adapters with
\* the fields it copied from the configuration.
NoClient == [kind |-> "none", apiKey |-> "", model |-> "", host |-> <<>>]
NewClient(kind, key, model, host) ==
    [kind |-> kind, apiKey |-> key, model |-> model, host |-> host]

\* The error the factory returns: nil, or a *core.AppError with its Msg.
NoError == [kind |-> "nil", msg |-> <<>>]
AppError(msg) == [kind |-> "AppError", msg |-> msg]

\* The factory without the api key test in the claude branch.
NewClientFromConfigNoKeyTest(cfg) ==
    LET provider == ToLower(cfg.AIProvider)
    IN  IF provider = <<"o", "l", "l", "a", "m", "a">>
        THEN [client |-> NewClient("ollama", "", cfg.AIModel, cfg.OllamaHost),
              err |-> NoError]
        ELSE IF provider = <<"g", "r", "o", "q">> \/ provider = <<>>
        THEN IF cfg.APIKey = ""
             THEN [client |-> NoClient,
                   err |-> AppError(<<"api_key is required for groq provider">>)]
             ELSE [client |-> NewClient("groq", cfg.APIKey, cfg.AIModel, <<>>),
                   err |-> NoError]
        ELSE IF provider = <<"c", "l", "a", "u", "d", "e">>
        THEN [client |-> NewClient("claude", cfg.APIKey,
                                   IF cfg.AIModel = ""
                                   THEN "claude-sonnet-4-6"
                                   ELSE cfg.AIModel, <<>>),
              err |-> NoError]
        ELSE [client |-> NoClient,
              err |-> AppError(<<"unknown ai_provider ">>
                               \o Quote(cfg.AIProvider)
                               \o <<" (valid: ", "groq", ", ", "ollama", ", ",
                                    "claude", ")">>)]

\* The factory building the message of an unknown provider from the
\* lower-cased name.
NewClientFromConfigLowerMsg(cfg) ==
    LET provider == ToLower(cfg.AIProvider)
    IN  IF provider = <<"o", "l", "l", "a", "m", "a">>
        THEN [client |-> NewClient("ollama", "", cfg.AIModel, cfg.OllamaHost),
              err |-> NoError]
        ELSE IF provider = <<"g", "r", "o", "q">> \/ provider = <<>>
        THEN IF cfg.APIKey = ""
             THEN [client |-> NoClient,
                   err |-> AppError(<<"api_key is required for groq provider">>)]
             ELSE [client |-> NewClient("groq", cfg.APIKey, cfg.AIModel, <<>>),
                   err |-> NoError]
        ELSE IF provider = <<"c", "l", "a", "u", "d", "e">>
        THEN IF cfg.APIKey = ""
             THEN [client |-> NoClient,
                   err |-> AppError(<<"api_key is required for claude provider">>)]
             ELSE [client |-> NewClient("claude", cfg.APIKey,
                                        IF cfg.AIModel = ""
                                        THEN "claude-sonnet-4-6"
                                        ELSE cfg.AIModel, <<>>),
                   err |-> NoError]
        ELSE [client |-> NoClient,
              err |-> AppError(<<"unknown ai_provider ">>
                               \o Quote(provider)
                               \o <<" (valid: ", "groq", ", ", "ollama", ", ",
                                    "claude", ")">>)]

\* NewClientFromConfig: the client and the error it returns.
NewClientFromConfig(cfg) ==
    LET provider == ToLower(cfg.AIProvider)
    IN  IF provider = <<"o", "l", "l", "a", "m", "a">>
        THEN [client |-> NewClient("ollama", "", cfg.AIModel, cfg.OllamaHost),
              err |-> NoError]
        ELSE IF provider = <<"g", "r", "o", "q">> \/ provider = <<>>
        THEN IF cfg.APIKey = ""
             THEN [client |-> NoClient,
                   err |-> AppError(<<"api_key is required for groq provider">>)]
             ELSE [client |-> NewClient("groq", cfg.APIKey, cfg.AIModel, <<>>),
                   err |-> NoError]
        ELSE IF provider = <<"c", "l", "a", "u", "d", "e">>
        THEN IF cfg.APIKey = ""
             THEN [client |-> NoClient,
                   err |-> AppError(<<"api_key is required for claude provider">>)]
             ELSE [client |-> NewClient("claude", cfg.APIKey,
                                        IF cfg.AIModel = ""
                                        THEN "claude-sonnet-4-6"
                                        ELSE cfg.AIModel, <<>>),
                   err |-> NoError]
        ELSE [client |-> NoClient,
              err |-> AppError(<<"unknown ai_provider ">>
                               \o Quote(cfg.AIProvider)
                               \o <<" (valid: ", "groq", ", ", "ollama", ", ",
                                    "claude", ")">>)]

\* Only one trailing character cut off, as strings.TrimSuffix does.
TrimRightOnce(s, cut) ==
    IF s # <<>> /\ s[Len(s)] = cut THEN SubSeq(s, 1, Len(s) - 1) ELSE s

\* strings.TrimRight(s, cutset), for a cutset of one character.
RECURSIVE TrimRight(_, _)
TrimRight(s, cut) ==
    IF s # <<>> /\ s[Len(s)] = cut
    THEN TrimRight(SubSeq(s, 1, Len(s) - 1), cut)
    ELSE s

\* The URLs of the two cloud providers and ollama's default host.
groqAPIURL ==
    <<"https:", "/", "/", "api.groq.com", "/", "openai", "/", "v1", "/",
      "chat", "/", "completions">>
anthropicAPIURL ==
    <<"https:", "/", "/", "api.anthropic.com", "/", "v1", "/", "messages">>
DefaultHost == <<"http:", "/", "/", "localhost:11434">>

\* The URL a client's Stream posts to.
URL(c) ==
    CASE c.kind = "groq" -> groqAPIURL
      [] c.kind = "claude" -> anthropicAPIURL
      [] c.kind = "ollama" ->
            LET host == IF c.host = <<>> THEN DefaultHost ELSE c.host
            IN  TrimRight(host, "/") \o <<"/", "api", "/", "chat">>

\* A configuration NewClientFromConfig builds adapter a from.
ConfigFor(a) ==
    Config(CASE a = "groq" -> <<"g", "r", "o", "q">>
             [] a = "ollama" -> <<"o", "l", "l", "a", "m", "a">>
             [] a = "claude" -> <<"c", "l", "a", "u", "d", "e">>,
           "model", "key", <<>>)

\* ----------------------------------------------------------------- state
VARIABLES
    cfg,           \* the core.Config handed to NewClientFromConfig
    client,        \* the Client NewClientFromConfig returned
    newErr,        \* the error NewClientFromConfig returned
    adapter,       \* which Client the factory built
    cancelled,     \* ctx.Done() is closed
    call,          \* the Stream call: "idle", "failed" or "streaming"
    resp,          \* what http.DefaultClient.Do came back with
    retErr,        \* the error Stream returned (Nil for none)
    url,           \* the URL Stream handed to doPost
    posts,         \* HTTP requests sent
    remote,        \* the remote end of the body: "open", "eof" or "err"
    preload,       \* lines of the long response that are there from the start
    body,          \* the lines the remote has delivered after those
    remoteMax,     \* the most lines the remote delivers after those
    remoteLines,   \* the lines the remote chooses from
    remoteEnds,    \* the ways the remote may end the body
    remoteStatuses, \* the statuses the remote may answer with
    pos,           \* lines the scanner has returned
    pc,            \* the producer: "none", "scan", "check", "send",
                   \* "closeBody", "closeCh", "done"
    currentEvent,  \* claude: var currentEvent string
    delta,         \* the text of the send the producer is at
    retAfter,      \* the producer returns after that send
    ch,            \* the channel's buffer
    chCloses,      \* close(ch) calls
    bodyCloses,    \* body.Close() calls
    panicked,      \* a send on, or a close of, a closed channel happened
    recvd,         \* what the consumer has received
    drained,       \* the consumer has seen the channel closed
    readLog,       \* who read the body, and whether Stream had returned
    stdout,        \* what has been written to os.Stdout
    stderr,        \* what has been written to os.Stderr, one entry a Fprintln
    bw,            \* PrintStream: the bufio.Writer's buffer
    printPc,       \* PrintStream: "none", "range", "fprint", "flush",
                   \* "newline", "returned"
    printErr,      \* the error PrintStream returned (Nil for none)
    exitCode,      \* the tool's exit status (NotExited while it runs)
    copyMode,      \* stand: the --copy flag
    file,          \* the store's JSON file
    tmp,           \* the store's temporary file, path + ".tmp"
    appended,      \* the items of the Append calls that returned nil
    loaded,        \* the items the last Load returned
    storeErr,      \* the error the last call on the store returned
    lastOp,        \* the last call on the store: "none", "Load", "Append"
    second,        \* a second Stream call on the same client: its context,
                   \* request, producer, channel and consumer
    git,           \* diff, stand: the tool, whether git has run, what it
                   \* wrote and whether LoadConfig has returned a Config
    procs,         \* processes inside a call on the store, step by step
    args           \* pin: the arguments of the command that ran last

vars == <<cfg, client, newErr, adapter, cancelled, call, resp, retErr, url, posts, remote, preload,
          body, remoteMax, remoteLines, remoteEnds, remoteStatuses, pos, pc, currentEvent, delta, retAfter, ch, chCloses, bodyCloses,
          panicked, recvd, drained, readLog, stdout, stderr, bw, printPc,
          printErr, exitCode, copyMode, file, tmp, appended, loaded, storeErr,
          lastOp, second, git, procs, args>>

\* The body as the scanner sees it: line i, and the lines there are.
BodyLen == preload + Len(body)
BodyLine(i) == IF i <= preload THEN LongLine(adapter, i) ELSE body[i - preload]
AllLines == [i \in 1..BodyLen |-> BodyLine(i)]

\* The tool around the call, and all that no step of the call touches.
NotExited == 0 - 1
toolVars == <<stdout, stderr, bw, printPc, printErr, exitCode, copyMode>>
storeVars == <<file, tmp, appended, loaded, storeErr, lastOp>>
sideVars == <<git, procs, args>>
restVars == <<toolVars, storeVars, second, sideVars>>

\* The tool has written nothing and has not called PrintStream.
ToolIdle ==
    /\ stdout = <<>>
    /\ stderr = <<>>
    /\ bw = <<>>
    /\ printPc = "none"
    /\ printErr = Nil
    /\ exitCode = NotExited
\* No file of the store exists and the store has not been called.
NoFile == [exists |-> FALSE, valid |-> FALSE, objects |-> <<>>]
StoreIdle ==
    /\ file = NoFile
    /\ tmp = NoFile
    /\ appended = <<>>
    /\ loaded = <<>>
    /\ storeErr = Nil
    /\ lastOp = "none"
\* No second call of Stream has been made.
NoCall ==
    [call |-> "idle", cancelled |-> FALSE, posts |-> 0, pos |-> 0,
     pc |-> "none", currentEvent |-> NoEvent, delta |-> "", retAfter |-> FALSE,
     ch |-> <<>>, chCloses |-> 0, bodyCloses |-> 0, panicked |-> FALSE,
     recvd |-> <<>>, drained |-> FALSE]
\* No git command has run, no process is inside the store, no pin command
\* has run.
NoGit == [tool |-> "none", out |-> <<>>, ran |-> FALSE, config |-> FALSE]
SideIdle ==
    /\ git = NoGit
    /\ procs = <<>>
    /\ args = <<>>
RestIdle ==
    ToolIdle /\ copyMode = FALSE /\ StoreIdle /\ second = NoCall /\ SideIdle

callVars ==
    <<cfg, client, newErr, call, resp, retErr, url, posts, preload, remoteMax,
      remoteLines, remoteEnds, remoteStatuses, restVars>>
producerVars == <<pos, pc, currentEvent, delta, retAfter>>
historyVars == <<readLog>>

InitWith(pre, max, more, ends, statuses) ==
    /\ adapter \in Adapters
    /\ cfg = ConfigFor(adapter)
    /\ client = NewClientFromConfig(cfg).client
    /\ newErr = NewClientFromConfig(cfg).err
    /\ cancelled = FALSE
    /\ call = "idle"
    /\ resp = NoResponse("")
    /\ retErr = Nil
    /\ url = <<>>
    /\ posts = 0
    /\ remote = "open"
    /\ preload = pre
    /\ body = <<>>
    /\ remoteMax = max
    /\ remoteLines = more[adapter]
    /\ remoteEnds = ends
    /\ remoteStatuses = statuses
    /\ pos = 0
    /\ pc = "none"
    /\ currentEvent = NoEvent
    /\ delta = ""
    /\ retAfter = FALSE
    /\ ch = <<>>
    /\ chCloses = 0
    /\ bodyCloses = 0
    /\ panicked = FALSE
    /\ recvd = <<>>
    /\ drained = FALSE
    /\ readLog = {}
    /\ RestIdle

\* The state when Stream is called; the remote has delivered nothing yet.
Ends == {"eof", "err"}
Init == InitWith(0, MaxBody, [a \in Adapters |-> Lines(a)], Ends, Statuses)

\* The state when Stream is called and the response will be the long one.
MoreText == [a \in Adapters |-> {TextLine(a, "a")}]
InitLong == InitWith(LongBody, 1, MoreText, Ends, Statuses)


\* ------------------------------------------------------------ Stream call
\* groqClient.Stream, ollamaClient.Stream, claudeClient.Stream: doPost,
\* then either return its error or make the channel and start the producer.
\* Only ollama's URL comes from configuration and can fail to parse.
Stream ==
    /\ client # NoClient
    /\ call = "idle"
    /\ url' = URL(client)
    /\ \E r \in Responses(remoteStatuses) :
         LET p == doPost(r)
         IN  /\ r.fail = "create request" => adapter = "ollama"
             /\ resp' = r
             /\ posts' = posts + p.posts
             /\ retErr' = p.err
             /\ bodyCloses' = bodyCloses + p.closes
             /\ readLog' = IF p.reads > 0
                           THEN readLog \cup {[by |-> "doPost", returned |-> FALSE]}
                           ELSE readLog
             /\ IF p.err # Nil
                THEN call' = "failed" /\ pc' = "none"
                ELSE call' = "streaming" /\ pc' = "scan"
    /\ UNCHANGED <<cfg, client, newErr, adapter, cancelled, remote, preload,
                   body, remoteMax, remoteLines, remoteEnds, remoteStatuses, pos,
                   currentEvent, delta, retAfter, ch, chCloses, panicked, recvd,
                   drained, restVars>>

\* Scan giving up on a read error before it has returned the lines that
\* arrived ahead of the error.
ScanErrDrops ==
    /\ pc = "scan"
    /\ \/ /\ pos < BodyLen
          /\ remote # "err"
          /\ pos' = pos + 1
          /\ pc' = "check"
       \/ /\ \/ pos = BodyLen /\ remote # "open"
             \/ remote = "err"
             \/ cancelled
          /\ pos' = pos
          /\ pc' = "closeBody"
    /\ readLog' = readLog \cup {[by |-> "producer", returned |-> call # "idle"]}
    /\ UNCHANGED <<adapter, cancelled, callVars, remote, body, currentEvent,
                   delta, retAfter, ch, chCloses, bodyCloses, panicked, recvd,
                   drained>>

\* ---------------------------------------------------------------- producer
\* Scan on a request made without the context: cancelling aborts no read.
ScanNoAbort ==
    /\ pc = "scan"
    /\ \/ /\ pos < BodyLen
          /\ pos' = pos + 1
          /\ pc' = "check"
       \/ /\ pos = BodyLen /\ remote # "open"
          /\ pos' = pos
          /\ pc' = "closeBody"
    /\ readLog' = readLog \cup {[by |-> "producer", returned |-> call # "idle"]}
    /\ UNCHANGED <<adapter, cancelled, callVars, remote, body, currentEvent,
                   delta, retAfter, ch, chCloses, bodyCloses, panicked, recvd,
                   drained>>

\* for scanner.Scan(): the next line, or false at the end of the body, on a
\* read error, and when the cancelled request context aborts the read.  It
\* blocks while the remote has delivered nothing new and has not closed.
Scan ==
    /\ pc = "scan"
    /\ \/ /\ pos < BodyLen
          /\ pos' = pos + 1
          /\ pc' = "check"
       \/ /\ \/ pos = BodyLen /\ remote # "open"
             \/ cancelled
          /\ pos' = pos
          /\ pc' = "closeBody"
    /\ readLog' = readLog \cup {[by |-> "producer", returned |-> call # "idle"]}
    /\ UNCHANGED <<adapter, cancelled, callVars, remote, body, currentEvent,
                   delta, retAfter, ch, chCloses, bodyCloses, panicked, recvd,
                   drained>>

\* The loop body looking at ctx.Done() only after a line that yields no text.
CheckCancelLate ==
    /\ pc = "check"
    /\ LET v == ProcessLine(adapter, BodyLine(pos), currentEvent)
       IN  IF v.text = "" /\ cancelled
           THEN /\ pc' = "closeBody"
                /\ UNCHANGED <<currentEvent, delta, retAfter>>
           ELSE /\ currentEvent' = v.ev
                /\ delta' = v.text
                /\ retAfter' = v.ret
                /\ pc' = IF v.text # "" THEN "send"
                         ELSE IF v.ret THEN "closeBody"
                         ELSE "scan"
    /\ UNCHANGED <<adapter, cancelled, callVars, remote, body, pos, ch,
                   chCloses, bodyCloses, panicked, recvd, drained, historyVars>>

\* The loop body without the delta != "" test in front of the send.
CheckSendsEmpty ==
    /\ pc = "check"
    /\ IF cancelled
       THEN /\ pc' = "closeBody"
            /\ UNCHANGED <<currentEvent, delta, retAfter>>
       ELSE LET v == ProcessLine(adapter, BodyLine(pos), currentEvent)
            IN  /\ currentEvent' = v.ev
                /\ delta' = v.text
                /\ retAfter' = v.ret
                /\ pc' = IF v.text = "" /\ v.ret THEN "closeBody" ELSE "send"
    /\ UNCHANGED <<adapter, cancelled, callVars, remote, body, pos, ch,
                   chCloses, bodyCloses, panicked, recvd, drained, historyVars>>

\* The loop body without the cancellation check at its top.
CheckNoCancel ==
    /\ pc = "check"
    /\ LET v == ProcessLine(adapter, BodyLine(pos), currentEvent)
       IN  /\ currentEvent' = v.ev
           /\ delta' = v.text
           /\ retAfter' = v.ret
           /\ pc' = IF v.text # "" THEN "send"
                    ELSE IF v.ret THEN "closeBody"
                    ELSE "scan"
    /\ UNCHANGED <<adapter, cancelled, callVars, remote, body, pos, ch,
                   chCloses, bodyCloses, panicked, recvd, drained, historyVars>>

\* The loop body looking at the terminal flag before it sends the text.
CheckDoneFirst ==
    /\ pc = "check"
    /\ IF cancelled
       THEN /\ pc' = "closeBody"
            /\ UNCHANGED <<currentEvent, delta, retAfter>>
       ELSE LET v == ProcessLine(adapter, BodyLine(pos), currentEvent)
            IN  /\ currentEvent' = v.ev
                /\ delta' = v.text
                /\ retAfter' = v.ret
                /\ pc' = IF v.ret THEN "closeBody"
                         ELSE IF v.text # "" THEN "send"
                         ELSE "scan"
    /\ UNCHANGED <<adapter, cancelled, callVars, remote, body, pos, ch,
                   chCloses, bodyCloses, panicked, recvd, drained, historyVars>>

\* select { case <-ctx.Done(): return; default: } and the rest of the loop
\* body up to the send, the return or the next iteration.
Check ==
    /\ pc = "check"
    /\ IF cancelled
       THEN /\ pc' = "closeBody"
            /\ UNCHANGED <<currentEvent, delta, retAfter>>
       ELSE LET v == ProcessLine(adapter, BodyLine(pos), currentEvent)
            IN  /\ currentEvent' = v.ev
                /\ delta' = v.text
                /\ retAfter' = v.ret
                /\ pc' = IF v.text # "" THEN "send"
                         ELSE IF v.ret THEN "closeBody"
                         ELSE "scan"
    /\ UNCHANGED <<adapter, cancelled, callVars, remote, body, pos, ch,
                   chCloses, bodyCloses, panicked, recvd, drained, historyVars>>

\* A send that gives the fragment up when the buffer is full, as a select
\* with a default case would.
SendFragmentOrDrop ==
    /\ pc = "send"
    /\ ch' = IF Len(ch) < ChanCap THEN Append(ch, delta) ELSE ch
    /\ panicked' = (panicked \/ chCloses > 0)
    /\ pc' = IF retAfter THEN "closeBody" ELSE "scan"
    /\ UNCHANGED <<adapter, cancelled, callVars, remote, body, pos,
                   currentEvent, delta, retAfter, chCloses, bodyCloses, recvd,
                   drained, readLog>>

\* A send that goes through with the buffer already full.
SendFragmentOver ==
    /\ pc = "send"
    /\ Len(ch) <= ChanCap
    /\ ch' = Append(ch, delta)
    /\ panicked' = (panicked \/ chCloses > 0)
    /\ pc' = IF retAfter THEN "closeBody" ELSE "scan"
    /\ UNCHANGED <<adapter, cancelled, callVars, remote, body, pos,
                   currentEvent, delta, retAfter, chCloses, bodyCloses, recvd,
                   drained, readLog>>

\* select { case ch <- delta: ... }: the send goes through when the buffer
\* has room; a send on a closed channel panics.
SendFragment ==
    /\ pc = "send"
    /\ Len(ch) < ChanCap
    /\ ch' = Append(ch, delta)
    /\ panicked' = (panicked \/ chCloses > 0)
    /\ pc' = IF retAfter THEN "closeBody" ELSE "scan"
    /\ UNCHANGED <<adapter, cancelled, callVars, remote, body, pos,
                   currentEvent, delta, retAfter, chCloses, bodyCloses, recvd,
                   drained, readLog>>

\* The cancelled send closing the channel itself before it returns.
SendCancelledClosing ==
    /\ pc = "send"
    /\ cancelled
    /\ chCloses' = chCloses + 1
    /\ panicked' = (panicked \/ chCloses > 0)
    /\ pc' = "closeBody"
    /\ UNCHANGED <<adapter, cancelled, callVars, remote, body, pos,
                   currentEvent, delta, retAfter, ch, bodyCloses, recvd,
                   drained, historyVars>>

\* The cancelled send returning past body.Close().
SendCancelledLeak ==
    /\ pc = "send"
    /\ cancelled
    /\ pc' = "closeCh"
    /\ UNCHANGED <<adapter, cancelled, callVars, remote, body, pos,
                   currentEvent, delta, retAfter, ch, chCloses, bodyCloses,
                   panicked, recvd, drained, historyVars>>

\* select { ... case <-ctx.Done(): return }
SendCancelled ==
    /\ pc = "send"
    /\ cancelled
    /\ pc' = "closeBody"
    /\ UNCHANGED <<adapter, cancelled, callVars, remote, body, pos,
                   currentEvent, delta, retAfter, ch, chCloses, bodyCloses,
                   panicked, recvd, drained, historyVars>>

\* Both deferred calls run in the order they were written: close(ch), then
\* body.Close().
CloseChannelThenBody ==
    /\ pc = "closeBody"
    /\ chCloses' = chCloses + 1
    /\ panicked' = (panicked \/ chCloses > 0)
    /\ bodyCloses' = bodyCloses + 1
    /\ pc' = "done"
    /\ UNCHANGED <<adapter, cancelled, callVars, remote, body, pos,
                   currentEvent, delta, retAfter, ch, recvd, drained,
                   historyVars>>

\* body.Close() with no close(ch) deferred behind it.
CloseBodyOnly ==
    /\ pc = "closeBody"
    /\ bodyCloses' = bodyCloses + 1
    /\ pc' = "done"
    /\ UNCHANGED <<adapter, cancelled, callVars, remote, body, pos,
                   currentEvent, delta, retAfter, ch, chCloses, panicked, recvd,
                   drained, historyVars>>

\* defer body.Close(): runs first when the producer returns.
CloseBody ==
    /\ pc = "closeBody"
    /\ bodyCloses' = bodyCloses + 1
    /\ pc' = "closeCh"
    /\ UNCHANGED <<adapter, cancelled, callVars, remote, body, pos,
                   currentEvent, delta, retAfter, ch, chCloses, panicked, recvd,
                   drained, historyVars>>

\* defer close(ch): runs last; a close of a closed channel panics.
CloseChannel ==
    /\ pc = "closeCh"
    /\ chCloses' = chCloses + 1
    /\ panicked' = (panicked \/ chCloses > 0)
    /\ pc' = "done"
    /\ UNCHANGED <<adapter, cancelled, callVars, remote, body, pos,
                   currentEvent, delta, retAfter, ch, bodyCloses, recvd,
                   drained, historyVars>>

Producer ==
    Scan \/ Check \/ SendFragment \/ SendCancelled \/ CloseBody \/ CloseChannel

\* ---------------------------------------------------------------- consumer
\* for chunk := range ch: one receive of a buffered fragment.
Receive ==
    /\ call = "streaming"
    /\ ~drained
    /\ Len(ch) > 0
    /\ recvd' = Append(recvd, Head(ch))
    /\ ch' = Tail(ch)
    /\ UNCHANGED <<adapter, cancelled, callVars, remote, body, producerVars,
                   chCloses, bodyCloses, panicked, drained, historyVars>>

\* for chunk := range ch: the loop ends on a closed, empty channel.
ReceiveClosed ==
    /\ call = "streaming"
    /\ ~drained
    /\ Len(ch) = 0
    /\ chCloses > 0
    /\ drained' = TRUE
    /\ UNCHANGED <<adapter, cancelled, callVars, remote, body, producerVars,
                   ch, chCloses, bodyCloses, panicked, recvd, historyVars>>

Consumer == Receive \/ ReceiveClosed

\* -------------------------------------------------------------- environment
\* The caller cancels ctx.
Cancel ==
    /\ ~cancelled
    /\ cancelled' = TRUE
    /\ UNCHANGED <<adapter, callVars, remote, body, producerVars, ch, chCloses,
                   bodyCloses, panicked, recvd, drained, readLog>>

\* The remote writes one more line of the response body.
RemoteSend ==
    /\ call = "streaming"
    /\ remote = "open"
    /\ bodyCloses = 0
    /\ Len(body) < remoteMax
    /\ \E l \in remoteLines : body' = Append(body, l)
    /\ UNCHANGED <<adapter, cancelled, callVars, remote, producerVars, ch,
                   chCloses, bodyCloses, panicked, recvd, drained, historyVars>>

\* The remote ends the body, or the connection drops.
RemoteClose ==
    /\ call = "streaming"
    /\ remote = "open"
    /\ bodyCloses = 0
    /\ remote' \in remoteEnds
    /\ UNCHANGED <<adapter, cancelled, callVars, body, producerVars, ch,
                   chCloses, bodyCloses, panicked, recvd, drained, historyVars>>

Next ==
    \/ Stream
    \/ Scan
    \/ Check
    \/ SendFragment
    \/ SendCancelled
    \/ CloseBody
    \/ CloseChannel
    \/ Receive
    \/ ReceiveClosed
    \/ Cancel
    \/ RemoteSend
    \/ RemoteClose

Spec == Init /\ [][Next]_vars

\* The same program on the long response.
SpecLong == InitLong /\ [][Next]_vars

\* The long response again, from a remote that answers 200 or 500 and ends
\* the body cleanly if it ends it.
InitLive == InitWith(LongBody, 1, MoreText, {"eof"}, {200, 500})

\* The producer goroutine is scheduled whenever it can take a step; nothing
\* is assumed of the consumer or of the remote.
LiveCancel == InitLive /\ [][Next]_vars /\ WF_vars(Producer)

\* The producer is scheduled, the consumer keeps receiving, and the remote
\* ends the body at some point.
LiveDrain ==
    InitLive /\ [][Next]_vars /\ WF_vars(Producer) /\ WF_vars(Consumer)
             /\ WF_vars(RemoteClose)

\* ------------------------------------------------- the frame decoders' cases
\* Most lines the remote delivers on one response body when it draws them
\* from the wider set of frames below.
MaxFrames == 2

\* Frames of every shape the groq decoder tells apart: no choices, a null,
\* a "stop" and another finish_reason, a second choice that differs from
\* the first, and the sentinel with and without white space or prefix.
GroqFrameLines ==
    GroqLines \cup
    { Line("data:", TRUE, GroqFrame(<<>>)),
      Line("data:", TRUE, GroqFrame(<<Choice("a", <<"length">>)>>)),
      Line("data:", TRUE, GroqFrame(<<Choice("", <<"stop">>)>>)),
      Line("data:", TRUE,
           GroqFrame(<<Choice("a", <<>>), Choice("b", <<"stop">>)>>)),
      Line("data:", TRUE,
           GroqFrame(<<Choice("", <<"stop">>), Choice("b", <<>>)>>)),
      Line("data:", FALSE, NotJson("[DONE]")),
      Line("", FALSE, NotJson("[DONE]")) }

\* ollama: the same lines and a JSON object behind an event-stream prefix.
OllamaFrameLines ==
    OllamaLines \cup
    { Line("data:", TRUE, OllamaFrame("a", FALSE)),
      Line("data:", TRUE, OllamaFrame("b", TRUE)) }

\* claude: further event types, a delta of another type, an event line
\* without white space and a JSON object on a line without prefix.
ClaudeFrameLines ==
    ClaudeLines \cup
    { Line("event:", TRUE, NotJson("message_start")),
      Line("event:", FALSE, NotJson("content_block_delta")),
      Line("data:", TRUE, ClaudeFrame("input_json_delta", "a")),
      Line("data:", FALSE, ClaudeFrame("text_delta", "b")),
      Line("", FALSE, ClaudeFrame("text_delta", "a")) }

FrameLines ==
    [a \in Adapters |->
        CASE a = "groq" -> GroqFrameLines
          [] a = "ollama" -> OllamaFrameLines
          [] a = "claude" -> ClaudeFrameLines]

\* The state when Stream is called on a remote that answers 200 and sends
\* lines of these shapes.
InitFrames == InitWith(0, MaxFrames, FrameLines, {"eof"}, {200})

\* The same program decoding these frames.
SpecFrames == InitFrames /\ [][Next]_vars

\* ------------------------------------------------- the factory on its own
\* The state before NewClientFromConfig is called: any configuration, no
\* client, no call of Stream.
InitFactory ==
    /\ cfg \in Configs
    /\ client = NoClient
    /\ newErr = NoError
    /\ adapter = "none"
    /\ cancelled = FALSE
    /\ call = "idle"
    /\ resp = NoResponse("")
    /\ retErr = Nil
    /\ url = <<>>
    /\ posts = 0
    /\ remote = "open"
    /\ preload = 0
    /\ body = <<>>
    /\ remoteMax = 0
    /\ remoteLines = {}
    /\ remoteEnds = {}
    /\ remoteStatuses = {}
    /\ pos = 0
    /\ pc = "none"
    /\ currentEvent = NoEvent
    /\ delta = ""
    /\ retAfter = FALSE
    /\ ch = <<>>
    /\ chCloses = 0
    /\ bodyCloses = 0
    /\ panicked = FALSE
    /\ recvd = <<>>
    /\ drained = FALSE
    /\ readLog = {}
    /\ RestIdle

\* The caller calls NewClientFromConfig(cfg).
Construct ==
    /\ client = NoClient
    /\ newErr = NoError
    /\ LET r == NewClientFromConfig(cfg)
       IN  /\ client' = r.client
           /\ newErr' = r.err
           /\ adapter' = r.client.kind
    /\ UNCHANGED <<cfg, cancelled, call, resp, retErr, url, posts, remote, preload,
                   body, remoteMax, remoteLines, remoteEnds, remoteStatuses,
                   pos, pc, currentEvent, delta, retAfter, ch, chCloses,
                   bodyCloses, panicked, recvd, drained, readLog, restVars>>

NextFactory == Construct

SpecFactory == InitFactory /\ [][NextFactory]_vars

\* ------------------------------------------- the factory and then the call
\* The state before NewClientFromConfig is called, with a remote that will
\* answer a request with 200 or 400.
InitCall ==
    /\ cfg \in Configs
    /\ client = NoClient
    /\ newErr = NoError
    /\ adapter = "none"
    /\ cancelled = FALSE
    /\ call = "idle"
    /\ resp = NoResponse("")
    /\ retErr = Nil
    /\ url = <<>>
    /\ posts = 0
    /\ remote = "open"
    /\ preload = 0
    /\ body = <<>>
    /\ remoteMax = 0
    /\ remoteLines = {}
    /\ remoteEnds = {}
    /\ remoteStatuses = {200, ErrorStatus}
    /\ pos = 0
    /\ pc = "none"
    /\ currentEvent = NoEvent
    /\ delta = ""
    /\ retAfter = FALSE
    /\ ch = <<>>
    /\ chCloses = 0
    /\ bodyCloses = 0
    /\ panicked = FALSE
    /\ recvd = <<>>
    /\ drained = FALSE
    /\ readLog = {}
    /\ RestIdle

\* NewClientFromConfig, and then Stream on the client it returned.
NextCall == Construct \/ Stream

SpecCall == InitCall /\ [][NextCall]_vars

\* ------------------------------------------------- the tools: ask, diff, stand
\* Most lines the remote delivers on the response a tool prints.
MaxPrint == 2

\* The configurations a tool is run with: one for each provider, one
\* without the api key and one with a provider there is not.
ToolConfigs ==
    { ConfigFor(a) : a \in Adapters }
    \cup { Config(<<"g", "r", "o", "q">>, "model", "", <<>>),
           Config(<<"g", "p", "t">>, "model", "key", <<>>) }

\* theme.Error(s) and theme.Muted(s): the text, marked as an error or not.
Error(s) == <<"err ">> \o s
Muted(s) == s

\* What a failed write to os.Stdout returns.
WriteError == <<"write /dev/stdout: ", "cause">>

\* The state when a tool is started, with git not yet run where the tool
\* runs it.
InitToolRun(gits) ==
    /\ cfg \in ToolConfigs
    /\ client = NoClient
    /\ newErr = NoError
    /\ adapter = "none"
    /\ cancelled = FALSE
    /\ call = "idle"
    /\ resp = NoResponse("")
    /\ retErr = Nil
    /\ url = <<>>
    /\ posts = 0
    /\ remote = "open"
    /\ preload = 0
    /\ body = <<>>
    /\ remoteMax = MaxPrint
    /\ remoteLines = LET kind == NewClientFromConfig(cfg).client.kind
                     IN  IF kind = "none" THEN {} ELSE Lines(kind)
    /\ remoteEnds = Ends
    /\ remoteStatuses = {200, ErrorStatus}
    /\ pos = 0
    /\ pc = "none"
    /\ currentEvent = NoEvent
    /\ delta = ""
    /\ retAfter = FALSE
    /\ ch = <<>>
    /\ chCloses = 0
    /\ bodyCloses = 0
    /\ panicked = FALSE
    /\ recvd = <<>>
    /\ drained = FALSE
    /\ readLog = {}
    /\ ToolIdle
    /\ copyMode \in BOOLEAN
    /\ StoreIdle
    /\ second = NoCall
    /\ git \in gits
    /\ procs = <<>>
    /\ args = <<>>

\* The state when ask is started.
InitTool == InitToolRun({NoGit})

\* What no step of the tool itself touches.
besideTool ==
    <<cfg, client, newErr, adapter, cancelled, call, resp, retErr, url, posts,
      remote, preload, body, remoteMax, remoteLines, remoteEnds,
      remoteStatuses, producerVars, chCloses, bodyCloses, panicked, readLog,
      copyMode, storeVars, second, sideVars>>

\* if err != nil after NewClientFromConfig: the error on stderr, os.Exit(1).
ExitOnFactoryError ==
    /\ exitCode = NotExited
    /\ newErr # NoError
    /\ stderr' = Append(stderr, Error(newErr.msg))
    /\ exitCode' = 1
    /\ UNCHANGED <<besideTool, ch, recvd, drained, stdout, bw, printPc,
                   printErr>>

\* The tool writing the error of Stream to os.Stdout.
ExitOnStreamErrorStdout ==
    /\ exitCode = NotExited
    /\ call = "failed"
    /\ stdout' = Append(stdout, Error(retErr))
    /\ exitCode' = 1
    /\ UNCHANGED <<besideTool, ch, recvd, drained, stderr, bw, printPc,
                   printErr>>

\* if err != nil after client.Stream: the error on stderr, os.Exit(1).
ExitOnStreamError ==
    /\ exitCode = NotExited
    /\ call = "failed"
    /\ stderr' = Append(stderr, Error(retErr))
    /\ exitCode' = 1
    /\ UNCHANGED <<besideTool, ch, recvd, drained, stdout, bw, printPc,
                   printErr>>

\* PrintStream is called with the channel: bw := bufio.NewWriter(p.w).
PrintStream ==
    /\ exitCode = NotExited
    /\ call = "streaming"
    /\ printPc = "none"
    /\ bw' = <<>>
    /\ printPc' = "range"
    /\ UNCHANGED <<besideTool, ch, recvd, drained, stdout, stderr, printErr,
                   exitCode>>

\* for chunk := range ch: one chunk received.
PrintReceive ==
    /\ printPc = "range"
    /\ Len(ch) > 0
    /\ recvd' = Append(recvd, Head(ch))
    /\ ch' = Tail(ch)
    /\ printPc' = "fprint"
    /\ UNCHANGED <<besideTool, drained, stdout, stderr, bw, printErr,
                   exitCode>>

\* fmt.Fprint(bw, chunk): the chunk goes into the buffer.
PrintFprint ==
    /\ printPc = "fprint"
    /\ bw' = Append(bw, recvd[Len(recvd)])
    /\ printPc' = "flush"
    /\ UNCHANGED <<besideTool, ch, recvd, drained, stdout, stderr, printErr,
                   exitCode>>

\* The loop going on to the next chunk with this one still in the buffer.
PrintFlushLater ==
    /\ printPc = "flush"
    /\ printPc' = "range"
    /\ UNCHANGED <<besideTool, ch, recvd, drained, stdout, stderr, bw,
                   printErr, exitCode>>

\* bw.Flush(): the buffer is written to the writer, or the write fails and
\* PrintStream returns the error.
PrintFlush ==
    /\ printPc = "flush"
    /\ \/ /\ stdout' = stdout \o bw
          /\ bw' = <<>>
          /\ printPc' = "range"
          /\ UNCHANGED printErr
       \/ /\ printErr' = WriteError
          /\ printPc' = "returned"
          /\ UNCHANGED <<stdout, bw>>
    /\ UNCHANGED <<besideTool, ch, recvd, drained, stderr, exitCode>>

\* for chunk := range ch: the channel is closed and empty, the loop ends.
PrintClosed ==
    /\ printPc = "range"
    /\ Len(ch) = 0
    /\ chCloses > 0
    /\ drained' = TRUE
    /\ printPc' = "newline"
    /\ UNCHANGED <<besideTool, ch, recvd, stdout, stderr, bw, printErr,
                   exitCode>>

\* _, err := fmt.Fprintln(p.w); return err
PrintNewline ==
    /\ printPc = "newline"
    /\ \/ stdout' = Append(stdout, "\n") /\ printErr' = Nil
       \/ stdout' = stdout /\ printErr' = WriteError
    /\ printPc' = "returned"
    /\ UNCHANGED <<besideTool, ch, recvd, drained, stderr, bw, exitCode>>

\* The run function returns what PrintStream returned (stand: after the
\* tip that --copy asks for), and Execute exits: with status 1 and the
\* error on stderr, or with status 0.
Execute ==
    /\ exitCode = NotExited
    /\ printPc = "returned"
    /\ IF printErr # Nil
       THEN /\ stderr' = Append(stderr, printErr)
            /\ exitCode' = 1
       ELSE /\ stderr' = IF copyMode
                         THEN Append(stderr, Muted(<<"\n", "Tip: ", "...">>))
                         ELSE stderr
            /\ exitCode' = 0
    /\ UNCHANGED <<besideTool, ch, recvd, drained, stdout, bw, printPc,
                   printErr>>

\* The producer goroutine and the remote, as long as the process runs.
ToolProducer ==
    /\ exitCode = NotExited
    /\ Scan \/ Check \/ SendFragment \/ CloseBody \/ CloseChannel
ToolRemote ==
    /\ exitCode = NotExited
    /\ RemoteSend \/ RemoteClose

\* A tool's run: the context is context.Background(), never cancelled.
NextTool ==
    \/ Construct
    \/ ExitOnFactoryError
    \/ Stream
    \/ ExitOnStreamError
    \/ PrintStream
    \/ PrintReceive
    \/ PrintFprint
    \/ PrintFlush
    \/ PrintClosed
    \/ PrintNewline
    \/ Execute
    \/ ToolProducer
    \/ ToolRemote

SpecTool == InitTool /\ [][NextTool]_vars

\* ------------------------------------------------ diff and stand before that
\* What git may write for the tool to send: nothing, white space alone, or
\* text with or without white space around it.
GitOutputs ==
    { <<>>, <<" ">>, <<"\n", " ">>, <<"x">>, <<" ", "x", "\n">> }
WhiteSpace == { " ", "\n", "\t", "\r" }

RECURSIVE TrimLeft(_)
TrimLeft(s) ==
    IF Len(s) > 0 /\ Head(s) \in WhiteSpace THEN TrimLeft(Tail(s)) ELSE s
RECURSIVE TrimEnd(_)
TrimEnd(s) ==
    IF Len(s) > 0 /\ s[Len(s)] \in WhiteSpace
    THEN TrimEnd(SubSeq(s, 1, Len(s) - 1))
    ELSE s
\* bytes.TrimSpace, strings.TrimSpace on what git wrote.
TrimSpaceBytes(s) == TrimEnd(TrimLeft(s))

\* The test without TrimSpace.
NothingToSendUntrimmed(out) == Len(out) = 0

\* len(bytes.TrimSpace(diffOutput)) == 0, strings.TrimSpace(commits) == "".
NothingToSend(out) == Len(TrimSpaceBytes(out)) = 0

\* The error of getDiff and getCommits, and the line for no output.
GitError(tool) ==
    IF tool = "diff" THEN <<"git command failed", ": ", "cause">>
    ELSE <<"git log failed", ": ", "cause">>
NothingMessage(tool) ==
    IF tool = "diff" THEN <<"No changes found.">>
    ELSE <<"No commits found since ", "since", ".">>
ConfigError == <<"failed to parse config file", ": ", "cause">>

\* What no step before the client is built touches.
besideGit ==
    <<cfg, client, newErr, adapter, cancelled, call, resp, retErr, url, posts,
      remote, preload, body, remoteMax, remoteLines, remoteEnds,
      remoteStatuses, producerVars, ch, chCloses, bodyCloses, panicked, recvd,
      drained, readLog, bw, printPc, printErr, copyMode, storeVars, second,
      procs, args>>

\* getDiff(staged, commitHash), getCommits(since): git's output, or its
\* error on stderr and os.Exit(1).
GitRun ==
    /\ exitCode = NotExited
    /\ git.tool # "none"
    /\ ~git.ran
    /\ \/ /\ \E out \in GitOutputs :
               git' = [git EXCEPT !.out = out, !.ran = TRUE]
          /\ UNCHANGED <<stderr, exitCode>>
       \/ /\ git' = [git EXCEPT !.ran = TRUE]
          /\ stderr' = Append(stderr, Error(GitError(git.tool)))
          /\ exitCode' = 1
    /\ UNCHANGED <<besideGit, stdout>>

\* No output but white space: the line on stdout, return nil, and the
\* process exits with status 0.
NothingFound ==
    /\ exitCode = NotExited
    /\ git.ran
    /\ ~git.config
    /\ NothingToSend(git.out)
    /\ stdout' = stdout \o Muted(NothingMessage(git.tool)) \o <<"\n">>
    /\ exitCode' = 0
    /\ UNCHANGED <<besideGit, git, stderr>>

\* core.LoadConfig(): the configuration, or its error on stderr and
\* os.Exit(1).
LoadConfig ==
    /\ exitCode = NotExited
    /\ git.ran
    /\ ~git.config
    /\ ~NothingToSend(git.out)
    /\ \/ /\ git' = [git EXCEPT !.config = TRUE]
          /\ UNCHANGED <<stderr, exitCode>>
       \/ /\ stderr' = Append(stderr, Error(ConfigError))
          /\ exitCode' = 1
          /\ UNCHANGED git
    /\ UNCHANGED <<besideGit, stdout>>

\* mind.NewClientFromConfig(cfg), once the configuration is there.
GitConstruct ==
    /\ exitCode = NotExited
    /\ git.config
    /\ Construct

\* The state when diff or stand is started; diff has no --copy flag.
InitGit ==
    /\ InitToolRun({ [NoGit EXCEPT !.tool = t] : t \in {"diff", "stand"} })
    /\ git.tool = "diff" => ~copyMode

\* diff and stand from git's output to the exit.
NextGit ==
    \/ GitRun
    \/ NothingFound
    \/ LoadConfig
    \/ GitConstruct
    \/ ExitOnFactoryError
    \/ Stream
    \/ ExitOnStreamError
    \/ PrintStream
    \/ PrintReceive
    \/ PrintFprint
    \/ PrintFlush
    \/ PrintClosed
    \/ PrintNewline
    \/ Execute
    \/ ToolProducer
    \/ ToolRemote

SpecGit == InitGit /\ [][NextGit]_vars

\* ------------------------------------------------------ the JSON-file store
\* Most items the store is given.
MaxItems == 3

\* A byte that is not valid UTF-8, and the text of U+FFFD.
BadByte == "\\xff"
ReplacementRune == "\\ufffd"

\* The items: a PinEntry by its ID and its Text, sequences of characters.
Item(id, text) == [id |-> id, text |-> text]
Items ==
    { Item(<<"1">>, <<"a">>), Item(<<"2">>, <<"b", "c">>),
      Item(<<"3">>, <<"b", BadByte>>) }

\* encoding/json on a string: quoted, and coerced to valid UTF-8 with the
\* replacement rune for every invalid byte.
JSONString(s) ==
    <<"\"">> \o [i \in 1..Len(s) |-> IF s[i] = BadByte THEN ReplacementRune
                                     ELSE s[i]]
             \o <<"\"">>
\* encoding/json reading a string back: the text between the quotes.
StringOf(j) == SubSeq(j, 2, Len(j) - 1)

\* json.MarshalIndent(items, "", "  "): a file of one object for each item.
MarshalIndent(items) ==
    [exists |-> TRUE, valid |-> TRUE,
     objects |-> [i \in 1..Len(items) |->
                     [id |-> JSONString(items[i].id),
                      text |-> JSONString(items[i].text)]]]
\* json.Unmarshal(data, &items): the items of the objects, or an error.
UnmarshalItems(data) ==
    IF ~data.valid
    THEN [items |-> <<>>, err |-> <<"unexpected end of JSON input">>]
    ELSE [items |-> [i \in 1..Len(data.objects) |->
                        Item(StringOf(data.objects[i].id),
                             StringOf(data.objects[i].text))],
          err |-> Nil]
\* What os.WriteFile leaves behind when it fails: a file cut short.
CutShort == [exists |-> TRUE, valid |-> FALSE, objects |-> <<>>]

\* How the file system answers a call: every step works, or MkdirAll,
\* ReadFile, WriteFile or Rename fails.
LoadAnswers == {"ok", "mkdir", "read"}
SaveAnswers == {"ok", "mkdir", "write", "rename"}

\* ensureDir: os.MkdirAll on the directory of the path.
ensureDir(fs) ==
    IF fs = "mkdir"
    THEN <<"store: cannot create directory ", "dir", ": ", "cause">>
    ELSE Nil

\* Load taking a file that does not exist for a read error.
LoadNoFileIsError(fs) ==
    IF ensureDir(fs) # Nil THEN [items |-> <<>>, err |-> ensureDir(fs)]
    ELSE IF ~file.exists \/ fs = "read"
    THEN [items |-> <<>>, err |-> <<"store: read ", "path", ": ", "cause">>]
    ELSE LET u == UnmarshalItems(file)
         IN  IF u.err # Nil
             THEN [items |-> <<>>,
                   err |-> <<"store: decode ", "path", ": ">> \o u.err]
             ELSE [items |-> u.items, err |-> Nil]

\* Load: the items and the error it returns.
Load(fs) ==
    IF ensureDir(fs) # Nil THEN [items |-> <<>>, err |-> ensureDir(fs)]
    ELSE IF ~file.exists THEN [items |-> <<>>, err |-> Nil]
    ELSE IF fs = "read"
    THEN [items |-> <<>>, err |-> <<"store: read ", "path", ": ", "cause">>]
    ELSE LET u == UnmarshalItems(file)
         IN  IF u.err # Nil
             THEN [items |-> <<>>,
                   err |-> <<"store: decode ", "path", ": ">> \o u.err]
             ELSE [items |-> u.items, err |-> Nil]

\* Save: the error it returns and the two files as it leaves them.
Save(items, fs) ==
    IF ensureDir(fs) # Nil
    THEN [err |-> ensureDir(fs), file |-> file, tmp |-> tmp]
    ELSE IF fs = "write"
    THEN [err |-> <<"store: write temp file: ", "cause">>, file |-> file,
          tmp |-> CutShort]
    ELSE IF fs = "rename"
    THEN [err |-> <<"store: rename temp file: ", "cause">>, file |-> file,
          tmp |-> MarshalIndent(items)]
    ELSE [err |-> Nil, file |-> MarshalIndent(items), tmp |-> NoFile]

\* What no call on the store touches.
besideStore ==
    <<cfg, client, newErr, adapter, cancelled, call, resp, retErr, url, posts,
      remote, preload, body, remoteMax, remoteLines, remoteEnds,
      remoteStatuses, producerVars, ch, chCloses, bodyCloses, panicked, recvd,
      drained, readLog, toolVars, second, sideVars>>

\* A caller calls Load.
StoreLoad ==
    /\ \E fs \in LoadAnswers :
         /\ loaded' = Load(fs).items
         /\ storeErr' = Load(fs).err
    /\ lastOp' = "Load"
    /\ UNCHANGED <<besideStore, file, tmp, appended>>

\* A caller calls Append(item): Load, append, Save.
StoreAppend ==
    /\ Len(appended) < MaxItems
    /\ \E item \in Items, fs \in LoadAnswers, fs2 \in SaveAnswers :
         LET l == Load(fs)
             s == Save(Append(l.items, item), fs2)
         IN  IF l.err # Nil
             THEN /\ storeErr' = l.err
                  /\ UNCHANGED <<file, tmp, appended>>
             ELSE /\ storeErr' = s.err
                  /\ file' = s.file
                  /\ tmp' = s.tmp
                  /\ appended' = IF s.err = Nil THEN Append(appended, item)
                                 ELSE appended
    /\ lastOp' = "Append"
    /\ UNCHANGED <<besideStore, loaded>>

\* The state before the store's file exists.
InitStore ==
    /\ cfg = ConfigFor("groq")
    /\ client = NoClient
    /\ newErr = NoError
    /\ adapter = "none"
    /\ cancelled = FALSE
    /\ call = "idle"
    /\ resp = NoResponse("")
    /\ retErr = Nil
    /\ url = <<>>
    /\ posts = 0
    /\ remote = "open"
    /\ preload = 0
    /\ body = <<>>
    /\ remoteMax = 0
    /\ remoteLines = {}
    /\ remoteEnds = {}
    /\ remoteStatuses = {}
    /\ pos = 0
    /\ pc = "none"
    /\ currentEvent = NoEvent
    /\ delta = ""
    /\ retAfter = FALSE
    /\ ch = <<>>
    /\ chCloses = 0
    /\ bodyCloses = 0
    /\ panicked = FALSE
    /\ recvd = <<>>
    /\ drained = FALSE
    /\ readLog = {}
    /\ RestIdle

\* Calls on one store, one after the other.
NextStore == StoreLoad \/ StoreAppend

SpecStore == InitStore /\ [][NextStore]_vars

\* ----------------------------------------- two calls on the same client
\* The response of the second call: two fragments, all of it there.
SecondBody ==
    (IF adapter = "claude" THEN <<LongLine(adapter, 1)>> ELSE <<>>)
    \o <<TextLine(adapter, "x"), TextLine(adapter, "y")>>

\* What no step of the second call touches.
besideSecond ==
    <<cfg, client, newErr, adapter, cancelled, call, resp, retErr, url, posts,
      remote, preload, body, remoteMax, remoteLines, remoteEnds,
      remoteStatuses, producerVars, ch, chCloses, bodyCloses, panicked, recvd,
      drained, readLog, toolVars, storeVars, sideVars>>

\* Stream called a second time on the same client, with a context of its
\* own: doPost, then its error or a new channel and a new producer.
Stream2 ==
    /\ client # NoClient
    /\ second.call = "idle"
    /\ \E r \in Responses({200}) :
         LET p == doPost(r)
         IN  /\ r.fail = "create request" => adapter = "ollama"
             /\ second' = [second EXCEPT
                              !.posts = p.posts,
                              !.call = IF p.err # Nil THEN "failed"
                                       ELSE "streaming",
                              !.pc = IF p.err # Nil THEN "none" ELSE "scan"]
    /\ UNCHANGED besideSecond

\* for scanner.Scan() in the second producer.
Scan2 ==
    /\ second.pc = "scan"
    /\ \/ /\ second.pos < Len(SecondBody)
          /\ second' = [second EXCEPT !.pos = @ + 1, !.pc = "check"]
       \/ /\ second.pos = Len(SecondBody) \/ second.cancelled
          /\ second' = [second EXCEPT !.pc = "closeBody"]
    /\ UNCHANGED besideSecond

\* The loop body of the second producer, up to the send, the return or the
\* next iteration.
Check2 ==
    /\ second.pc = "check"
    /\ IF second.cancelled
       THEN second' = [second EXCEPT !.pc = "closeBody"]
       ELSE LET v == ProcessLine(adapter, SecondBody[second.pos],
                                 second.currentEvent)
            IN  second' = [second EXCEPT
                              !.currentEvent = v.ev,
                              !.delta = v.text,
                              !.retAfter = v.ret,
                              !.pc = IF v.text # "" THEN "send"
                                     ELSE IF v.ret THEN "closeBody"
                                     ELSE "scan"]
    /\ UNCHANGED besideSecond

\* The second producer sending on the channel of the first call.
SendFragment2OneChannel ==
    /\ second.pc = "send"
    /\ Len(ch) < ChanCap
    /\ ch' = Append(ch, second.delta)
    /\ panicked' = (panicked \/ chCloses > 0)
    /\ second' = [second EXCEPT
                     !.pc = IF second.retAfter THEN "closeBody" ELSE "scan"]
    /\ UNCHANGED <<cfg, client, newErr, adapter, cancelled, call, resp, retErr,
                   url, posts, remote, preload, body, remoteMax, remoteLines,
                   remoteEnds, remoteStatuses, producerVars, chCloses,
                   bodyCloses, recvd, drained, readLog, toolVars, storeVars,
                   sideVars>>

\* The second producer's send on its own channel.
SendFragment2 ==
    /\ second.pc = "send"
    /\ Len(second.ch) < ChanCap
    /\ second' = [second EXCEPT
                     !.ch = Append(@, second.delta),
                     !.panicked = (@ \/ second.chCloses > 0),
                     !.pc = IF second.retAfter THEN "closeBody" ELSE "scan"]
    /\ UNCHANGED besideSecond

\* The second producer's send giving way to its cancelled context.
SendCancelled2 ==
    /\ second.pc = "send"
    /\ second.cancelled
    /\ second' = [second EXCEPT !.pc = "closeBody"]
    /\ UNCHANGED besideSecond

\* The second producer's deferred body.Close() and close(ch).
CloseBody2 ==
    /\ second.pc = "closeBody"
    /\ second' = [second EXCEPT !.bodyCloses = @ + 1, !.pc = "closeCh"]
    /\ UNCHANGED besideSecond
CloseChannel2 ==
    /\ second.pc = "closeCh"
    /\ second' = [second EXCEPT
                     !.chCloses = @ + 1,
                     !.panicked = (@ \/ second.chCloses > 0),
                     !.pc = "done"]
    /\ UNCHANGED besideSecond

\* The consumer of the second call: a receive, and the end of its loop.
Receive2 ==
    /\ second.call = "streaming"
    /\ ~second.drained
    /\ Len(second.ch) > 0
    /\ second' = [second EXCEPT
                     !.recvd = Append(@, Head(second.ch)),
                     !.ch = Tail(@)]
    /\ UNCHANGED besideSecond
ReceiveClosed2 ==
    /\ second.call = "streaming"
    /\ ~second.drained
    /\ Len(second.ch) = 0
    /\ second.chCloses > 0
    /\ second' = [second EXCEPT !.drained = TRUE]
    /\ UNCHANGED besideSecond

\* The caller of the second call cancels its context.
Cancel2 ==
    /\ ~second.cancelled
    /\ second' = [second EXCEPT !.cancelled = TRUE]
    /\ UNCHANGED besideSecond

\* The state when Stream is called: the remote answers the first call with
\* 200 and up to two lines of text.
InitTwo ==
    InitWith(0, 2, [a \in Adapters |-> {LongLine(a, 1), TextLine(a, "a")}],
             {"eof"}, {200})

NextTwo ==
    \/ Next
    \/ Stream2
    \/ Scan2
    \/ Check2
    \/ SendFragment2
    \/ SendCancelled2
    \/ CloseBody2
    \/ CloseChannel2
    \/ Receive2
    \/ ReceiveClosed2
    \/ Cancel2

SpecTwo == InitTwo /\ [][NextTwo]_vars

\* ------------------------------------------------------------ the pin tool
\* Most entries pin add creates.
MaxPins == 3

\* time.Now(): the seconds since the epoch and the nanoseconds of the
\* second.  Two of these times lie 42 s apart, the third 100 s after the
\* first.
Time(sec, nsec) == [sec |-> sec, nsec |-> nsec]
Times ==
    { Time(1730000000, 5), Time(1730000042, 0), Time(1730000100, 7) }
Earlier(t, u) == t.sec < u.sec \/ (t.sec = u.sec /\ t.nsec < u.nsec)

\* fmt's %d: the decimal digits of a number.
Digit(d) == <<"0", "1", "2", "3", "4", "5", "6", "7", "8", "9">>[d + 1]
RECURSIVE Decimal(_)
Decimal(n) ==
    IF n < 10 THEN <<Digit(n)>> ELSE Decimal(n \div 10) \o <<Digit(n % 10)>>
RECURSIVE Padded(_, _)
\* The last w decimal digits of n, zeros in front.
Padded(n, w) ==
    IF w = 0 THEN <<>> ELSE Padded(n \div 10, w - 1) \o <<Digit(n % 10)>>

\* store.NewEntry at time t: the ID is fmt.Sprintf("%d", t.UnixNano()), the
\* decimal digits of sec * 10^9 + nsec.
NewEntry(t) == Decimal(t.sec) \o Padded(t.nsec, 9)

\* shortID: the first 8 characters of the entry ID.
shortID(id) == IF Len(id) <= 8 THEN id ELSE SubSeq(id, 1, 8)

\* findByID looking for the last entry that matches.
findByIDLast(entries, id) ==
    LET hits == { i \in 1..Len(entries) :
                    entries[i].id = id \/ shortID(entries[i].id) = id }
    IN  IF hits = {}
        THEN [idx |-> 0 - 1, err |-> <<"no entry with id ">> \o id]
        ELSE [idx |-> CHOOSE i \in hits : \A j \in hits : j <= i,
              err |-> Nil]

\* findByID: the index of the first entry whose ID or short ID is id, from
\* 1 as the sequence is counted, or -1 and an error.
findByID(entries, id) ==
    LET hits == { i \in 1..Len(entries) :
                    entries[i].id = id \/ shortID(entries[i].id) = id }
    IN  IF hits = {}
        THEN [idx |-> 0 - 1, err |-> <<"no entry with id ">> \o id]
        ELSE [idx |-> CHOOSE i \in hits : \A j \in hits : i <= j,
              err |-> Nil]

\* append(entries[:idx], entries[idx+1:]...)
RemoveAt(entries, idx) ==
    SubSeq(entries, 1, idx - 1) \o SubSeq(entries, idx + 1, Len(entries))

\* The texts pin add is given and the arguments pin rm is given: the IDs
\* and the short IDs of the entries there may be, and one that is neither.
PinTexts == { <<"a">>, <<"b">> }
RmArgs ==
    { NewEntry(t) : t \in Times } \cup { shortID(NewEntry(t)) : t \in Times }
        \cup { <<"x">> }

\* How openStore answers: paths.DataDir() works or fails.
OpenAnswers == { "ok", "datadir" }
DataDirError == <<"cannot create data directory for ", "pin">>

\* What no command of pin touches.
besidePin ==
    <<cfg, client, newErr, adapter, cancelled, call, resp, retErr, url, posts,
      remote, preload, body, remoteMax, remoteLines, remoteEnds,
      remoteStatuses, producerVars, ch, chCloses, bodyCloses, panicked, recvd,
      drained, readLog, stderr, bw, printPc, printErr, exitCode, copyMode,
      loaded, second, git, procs>>

\* pin add <text>, a process of its own with its own stdout: NewEntry,
\* openStore, s.Append(entry), the line on stdout.
\* The clock has moved on since the entries there are were made.
PinAdd ==
    /\ Len(appended) < MaxPins
    /\ \E t \in Times, text \in PinTexts, o \in OpenAnswers,
          fs \in LoadAnswers, fs2 \in SaveAnswers :
         LET entry == Item(NewEntry(t), text)
             l == Load(fs)
             s == Save(Append(l.items, entry), fs2)
         IN  /\ \A u \in Times :
                   (\E i \in 1..Len(appended) : appended[i].id = NewEntry(u))
                       => Earlier(u, t)
             /\ args' = <<<<"add">>, text>>
             /\ IF o # "ok"
                THEN /\ storeErr' = DataDirError
                     /\ UNCHANGED <<file, tmp, appended>>
                     /\ stdout' = <<>>
                ELSE IF l.err # Nil
                THEN /\ storeErr' = l.err
                     /\ UNCHANGED <<file, tmp, appended>>
                     /\ stdout' = <<>>
                ELSE /\ storeErr' = s.err
                     /\ file' = s.file
                     /\ tmp' = s.tmp
                     /\ appended' = IF s.err = Nil THEN Append(appended, entry)
                                    ELSE appended
                     /\ stdout' = IF s.err = Nil
                                  THEN <<<<"pinned ">> \o shortID(entry.id)>>
                                  ELSE <<>>
    /\ lastOp' = "add"
    /\ UNCHANGED besidePin

\* pin rm <id>: loadEntries, findByID, s.Save(updated), the line on stdout.
PinRm ==
    /\ \E id \in RmArgs, o \in OpenAnswers, fs \in LoadAnswers,
          fs2 \in SaveAnswers :
         LET l == Load(fs)
             f == findByID(l.items, id)
             s == Save(RemoveAt(l.items, f.idx), fs2)
         IN  /\ args' = <<<<"rm">>, id>>
             /\ IF o # "ok"
                THEN /\ storeErr' = DataDirError
                     /\ UNCHANGED <<file, tmp>>
                     /\ stdout' = <<>>
                ELSE IF l.err # Nil
                THEN /\ storeErr' = l.err
                     /\ UNCHANGED <<file, tmp>>
                     /\ stdout' = <<>>
                ELSE IF f.err # Nil
                THEN /\ storeErr' = f.err
                     /\ UNCHANGED <<file, tmp>>
                     /\ stdout' = <<>>
                ELSE /\ storeErr' = s.err
                     /\ file' = s.file
                     /\ tmp' = s.tmp
                     /\ stdout' = IF s.err = Nil
                                  THEN <<<<"removed ">> \o id>>
                                  ELSE <<>>
    /\ lastOp' = "rm"
    /\ UNCHANGED <<besidePin, appended>>

\* pin's commands, one after the other, on a store that starts without a
\* file.
NextPin == PinAdd \/ PinRm

SpecPin == InitStore /\ [][NextPin]_vars

\* ------------------------------------------- the store's calls, step by step
\* A process inside Load or Append: the call, where it is, the item it
\* appends, the items it holds, the bytes it read or encoded, the name its
\* open temporary file has now, and the error it returned.
Proc(op, item) ==
    [op |-> op, pc |-> "loadDir", item |-> item, items |-> <<>>,
     data |-> NoFile, fd |-> "closed", err |-> Nil]
NoItem == Item(<<>>, <<>>)

\* What no step of these processes touches.
besideSteps ==
    <<cfg, client, newErr, adapter, cancelled, call, resp, retErr, url, posts,
      remote, preload, body, remoteMax, remoteLines, remoteEnds,
      remoteStatuses, producerVars, ch, chCloses, bodyCloses, panicked, recvd,
      drained, readLog, toolVars, appended, loaded, storeErr, lastOp, second,
      git, args>>

\* The process returns err.
Returns(p, e) == [procs EXCEPT ![p].pc = "done", ![p].err = e]
\* The process goes on at pc.
GoesOn(p, pc2) == [procs EXCEPT ![p].pc = pc2]

\* Load: s.ensureDir().
LoadEnsureDir(p) ==
    /\ procs[p].pc = "loadDir"
    /\ \E fs \in {"ok", "mkdir"} :
         procs' = IF ensureDir(fs) # Nil THEN Returns(p, ensureDir(fs))
                  ELSE GoesOn(p, "read")
    /\ UNCHANGED <<besideSteps, file, tmp>>

\* Load: os.ReadFile(s.path), with the file absent, unreadable or read.
\* Append goes on with the items, Load returns them.
LoadRead(p) ==
    /\ procs[p].pc = "read"
    /\ \E fs \in {"ok", "read"} :
         procs' =
            IF ~file.exists
            THEN GoesOn(p, IF procs[p].op = "Load" THEN "done" ELSE "append")
            ELSE IF fs = "read"
            THEN Returns(p, <<"store: read ", "path", ": ", "cause">>)
            ELSE [procs EXCEPT ![p].pc = "decode", ![p].data = file]
    /\ UNCHANGED <<besideSteps, file, tmp>>

\* Load: json.Unmarshal(data, &items).
LoadDecode(p) ==
    /\ procs[p].pc = "decode"
    /\ LET u == UnmarshalItems(procs[p].data)
       IN  procs' =
              IF u.err # Nil
              THEN Returns(p, <<"store: decode ", "path", ": ">> \o u.err)
              ELSE [procs EXCEPT
                      ![p].items = u.items,
                      ![p].pc = IF procs[p].op = "Load" THEN "done"
                                ELSE "append"]
    /\ UNCHANGED <<besideSteps, file, tmp>>

\* Append: items = append(items, item), then Save.
AppendItem(p) ==
    /\ procs[p].pc = "append"
    /\ procs' = [procs EXCEPT
                   ![p].items = Append(procs[p].items, procs[p].item),
                   ![p].pc = "saveDir"]
    /\ UNCHANGED <<besideSteps, file, tmp>>

\* Save: s.ensureDir().
SaveEnsureDir(p) ==
    /\ procs[p].pc = "saveDir"
    /\ \E fs \in {"ok", "mkdir"} :
         procs' = IF ensureDir(fs) # Nil THEN Returns(p, ensureDir(fs))
                  ELSE GoesOn(p, "encode")
    /\ UNCHANGED <<besideSteps, file, tmp>>

\* Save: json.MarshalIndent(items, "", "  ").
SaveEncode(p) ==
    /\ procs[p].pc = "encode"
    /\ \E ok \in BOOLEAN :
         procs' = IF ~ok THEN Returns(p, <<"store: encode: ", "cause">>)
                  ELSE [procs EXCEPT ![p].pc = "open",
                                     ![p].data = MarshalIndent(procs[p].items)]
    /\ UNCHANGED <<besideSteps, file, tmp>>

\* Save, os.WriteFile(tmp, ...): the file path + ".tmp" is opened, created
\* or cut to no bytes.
SaveOpenTemp(p) ==
    /\ procs[p].pc = "open"
    /\ \E ok \in BOOLEAN :
         IF ~ok
         THEN /\ procs' = Returns(p, <<"store: write temp file: ", "cause">>)
              /\ tmp' = tmp
         ELSE /\ procs' = [procs EXCEPT ![p].pc = "write", ![p].fd = "tmp"]
              /\ tmp' = CutShort
    /\ UNCHANGED <<besideSteps, file>>

\* The file that the open descriptor fd names becomes f.
Written(fd, f) ==
    /\ file' = IF fd = "file" THEN f ELSE file
    /\ tmp' = IF fd = "tmp" THEN f ELSE tmp

\* os.WriteFile writing the bytes into the store's file itself.
SaveWriteInPlace(p) ==
    /\ procs[p].pc = "write"
    /\ \E ok \in BOOLEAN :
         IF ~ok
         THEN /\ procs' = [Returns(p, <<"store: write temp file: ", "cause">>)
                             EXCEPT ![p].fd = "closed"]
              /\ Written("file", CutShort)
         ELSE /\ procs' = [procs EXCEPT ![p].pc = "rename", ![p].fd = "closed"]
              /\ Written("file", procs[p].data)
    /\ UNCHANGED besideSteps

\* Save, os.WriteFile(tmp, ...): the bytes are written to the file that was
\* opened, all of them or, on an error, the first of them, and the file is
\* closed.
SaveWriteTemp(p) ==
    /\ procs[p].pc = "write"
    /\ \E ok \in BOOLEAN :
         IF ~ok
         THEN /\ procs' = [Returns(p, <<"store: write temp file: ", "cause">>)
                             EXCEPT ![p].fd = "closed"]
              /\ Written(procs[p].fd, CutShort)
         ELSE /\ procs' = [procs EXCEPT ![p].pc = "rename", ![p].fd = "closed"]
              /\ Written(procs[p].fd, procs[p].data)
    /\ UNCHANGED besideSteps

\* Save, os.Rename(tmp, s.path): the file named path + ".tmp", when there is
\* one, takes the place of the store's file in one step.  A descriptor
\* another process holds stays on the file it was opened on.
SaveRename(p) ==
    /\ procs[p].pc = "rename"
    /\ \E ok \in BOOLEAN :
         IF ~ok \/ ~tmp.exists
         THEN /\ procs' = Returns(p, <<"store: rename temp file: ", "cause">>)
              /\ UNCHANGED <<file, tmp>>
         ELSE /\ procs' = [q \in DOMAIN procs |->
                             IF q = p THEN [procs[p] EXCEPT !.pc = "done"]
                             ELSE [procs[q] EXCEPT
                                     !.fd = CASE procs[q].fd = "tmp" -> "file"
                                              [] procs[q].fd = "file" -> "gone"
                                              [] OTHER -> procs[q].fd]]
              /\ file' = tmp
              /\ tmp' = NoFile
    /\ UNCHANGED besideSteps

NextSteps ==
    \/ \E p \in DOMAIN procs : LoadEnsureDir(p)
    \/ \E p \in DOMAIN procs : LoadRead(p)
    \/ \E p \in DOMAIN procs : LoadDecode(p)
    \/ \E p \in DOMAIN procs : AppendItem(p)
    \/ \E p \in DOMAIN procs : SaveEnsureDir(p)
    \/ \E p \in DOMAIN procs : SaveEncode(p)
    \/ \E p \in DOMAIN procs : SaveOpenTemp(p)
    \/ \E p \in DOMAIN procs : SaveWriteTemp(p)
    \/ \E p \in DOMAIN procs : SaveRename(p)

\* The state when the given processes start on a store whose file is absent
\* or holds items.
InitSteps(ps) ==
    /\ cfg = ConfigFor("groq")
    /\ client = NoClient
    /\ newErr = NoError
    /\ adapter = "none"
    /\ cancelled = FALSE
    /\ call = "idle"
    /\ resp = NoResponse("")
    /\ retErr = Nil
    /\ url = <<>>
    /\ posts = 0
    /\ remote = "open"
    /\ preload = 0
    /\ body = <<>>
    /\ remoteMax = 0
    /\ remoteLines = {}
    /\ remoteEnds = {}
    /\ remoteStatuses = {}
    /\ pos = 0
    /\ pc = "none"
    /\ currentEvent = NoEvent
    /\ delta = ""
    /\ retAfter = FALSE
    /\ ch = <<>>
    /\ chCloses = 0
    /\ bodyCloses = 0
    /\ panicked = FALSE
    /\ recvd = <<>>
    /\ drained = FALSE
    /\ readLog = {}
    /\ ToolIdle
    /\ copyMode = FALSE
    /\ tmp = NoFile
    /\ appended = <<>>
    /\ loaded = <<>>
    /\ storeErr = Nil
    /\ lastOp = "none"
    /\ second = NoCall
    /\ git = NoGit
    /\ args = <<>>
    /\ \E first \in Items :
          file \in { NoFile, MarshalIndent(<<first>>) }
    /\ procs \in ps

\* One process in Append and one in Load on the same path.
InitSave ==
    InitSteps({ <<Proc("Append", i), Proc("Load", NoItem)>> : i \in Items })
SpecSave == InitSave /\ [][NextSteps]_vars

\* Two processes in Append on the same path, each with an item of its own.
InitAppends ==
    InitSteps({ ps \in { <<Proc("Append", i), Proc("Append", j)>> :
                            i \in Items, j \in Items } :
                  ps[1].item # ps[2].item })
SpecAppends == InitAppends /\ [][NextSteps]_vars

\* ================================================================ claims
Streaming == call = "streaming"
Emitted == Len(recvd) + Len(ch)
ProducerGone == pc \in {"closeCh", "done"}

\* C1: the fragment channel is closed exactly once, by the time the producer
\* has terminated and not before, and no send or second close ever hits the
\* closed channel (no panic).
C1_ChannelClosedOnce ==
    /\ chCloses <= 1
    /\ ~panicked
    /\ Streaming => (chCloses = 1 <=> pc = "done")
    /\ ~Streaming => chCloses = 0
C1_Witness == chCloses = 1 /\ cancelled /\ recvd # <<>> /\ ch # <<>>

\* C2: what the consumer has received is always a prefix of the non-empty
\* texts of the body's lines up to the first terminal one; with no
\* cancellation, a body read to its terminal line or to EOF and a consumer
\* that drained to the close, it is that whole list.
C2_FragmentsInOrder ==
    Streaming =>
        /\ IsPrefix(recvd, Fragments(adapter, AllLines))
        /\ (/\ drained
            /\ ~cancelled
            /\ (TerminalAt(adapter, AllLines, 1, NoEvent) # 0 \/ remote = "eof"))
           => recvd = Fragments(adapter, AllLines)
C2_Witness ==
    /\ drained
    /\ ~cancelled
    /\ recvd = <<"a", "b">>
    /\ TerminalAt(adapter, AllLines, 1, NoEvent) = 3

\* C3: Stream returns an error and no channel, with no producer and no
\* fragment ever, or a channel and no error, after one POST answered with a
\* status below 400 and with every body read made by the producer.
C3_ErrorOrChannel ==
    /\ call = "failed" =>
          /\ retErr # Nil
          /\ pc = "none"
          /\ Emitted = 0
          /\ chCloses = 0
          /\ \A r \in readLog : r.by = "doPost"
    /\ call = "streaming" =>
          /\ retErr = Nil
          /\ resp.fail = ""
          /\ resp.status < ErrorStatus
          /\ posts = 1
          /\ \A r \in readLog : r.by = "producer" /\ r.returned
C3_Witness ==
    /\ call = "streaming"
    /\ recvd # <<>>
    /\ [by |-> "producer", returned |-> TRUE] \in readLog

\* C4: once the call's context is cancelled the producer of a live stream
\* terminates with the body and the channel closed, whatever the consumer
\* and the remote do or fail to do.
C4_CancelTerminates ==
    (Streaming /\ cancelled) ~> (pc = "done" /\ bodyCloses = 1 /\ chCloses = 1)
C4_Witness ==
    /\ cancelled
    /\ pc = "done"
    /\ Len(ch) = ChanCap
    /\ recvd = <<>>
    /\ remote = "open"

\* C5 as stated: no send succeeds after the cancellation.
C5_NoSendAfterCancel == [][cancelled => Emitted' = Emitted]_vars

\* C5, amended: once ctx is cancelled and the producer is not at a send, it
\* never reaches a send again and emits nothing; only a send it was
\* already at when ctx was cancelled can still go through.
C5_OnlyPendingSend ==
    [][(cancelled /\ pc # "send") => (pc' # "send" /\ Emitted' = Emitted)]_vars
C5_Witness == cancelled /\ pc = "done" /\ ch # <<>> /\ pos < BodyLen

\* C6 as stated: after a cancellation that comes before the consumer has
\* received anything, the consumer receives nothing and the producer reads
\* no further line.
C6_EmptyAfterEarlyCancel ==
    [][(cancelled /\ recvd = <<>>) => (recvd' = <<>> /\ pos' = pos)]_vars

\* C6, amended: after the cancellation the channel gains at most the one
\* fragment whose send was pending, so the consumer receives what was
\* buffered before plus at most that one, and nothing at all when nothing
\* was buffered and no send was pending; a closed channel means a closed
\* body; the producer begins at most one more Scan and does not process
\* the line it may return.
C6_EarlyCancel ==
    /\ [][(cancelled /\ recvd = <<>> /\ ch = <<>> /\ pc # "send")
            => (recvd' = <<>> /\ ch' = <<>>)]_vars
    /\ [][cancelled
            => Emitted' <= Emitted + (IF pc = "send" THEN 1 ELSE 0)]_vars
    /\ [][(cancelled /\ pc \in {"check", "closeBody", "closeCh", "done"})
            => (pos' = pos /\ pc' \in {pc, "closeBody", "closeCh", "done"})]_vars
    /\ []((cancelled /\ chCloses > 0) => bodyCloses = 1)
C6_Witness ==
    /\ cancelled
    /\ drained
    /\ recvd = <<>>
    /\ pos > 0

\* C7: the producer closes the response body exactly once, on every way out
\* of its loop: the body is open while the producer is in the loop and
\* closed from the moment it has left it.
C7_BodyClosedOnce ==
    /\ bodyCloses <= 1
    /\ Streaming => (bodyCloses = 1 <=> ProducerGone)
C7_Witness ==
    /\ pc = "done"
    /\ bodyCloses = 1
    /\ cancelled
    /\ delta # ""
    /\ ch = <<>>
    /\ recvd = <<>>

\* C8: with a consumer that keeps receiving and a body that ends, the
\* channel of a live stream is closed and the consumer sees it, with no
\* cancellation needed; the producer can always step unless it waits in
\* Scan for the remote or in a send for room in the buffer.
C8_DrainTerminates ==
    /\ Streaming ~> (chCloses = 1 /\ drained)
    /\ [](pc \in {"check", "closeBody", "closeCh"} => ENABLED Producer)
    /\ []((pc = "scan" /\ ~ENABLED Producer) => (pos = BodyLen /\ remote = "open"))
    /\ []((pc = "send" /\ ~ENABLED Producer) => Len(ch) = ChanCap)
C8_Witness ==
    /\ drained
    /\ ~cancelled
    /\ Len(recvd) > ChanCap

\* C9 as stated: while 64 fragments are pending and ctx is not cancelled the
\* producer reads no further line.
C9_FullMeansNoRead ==
    [][(Len(ch) = ChanCap /\ Len(ch') = ChanCap /\ ~cancelled') => pos' = pos]_vars

\* C9, amended: at most 64 fragments are ever pending; with 64 pending the
\* producer still reads lines until it has a text to send, and once it is
\* at that send it stays there and reads nothing until the consumer
\* receives a fragment or ctx is cancelled.
C9_Backpressure ==
    /\ [](Len(ch) <= ChanCap)
    /\ [][(pc = "send" /\ Len(ch) = ChanCap)
            => /\ pos' = pos
               /\ Len(ch') <= ChanCap
               /\ pc' # "send" => cancelled]_vars
C9_Witness == pc = "send" /\ Len(ch) = ChanCap /\ ~cancelled

\* C10: for a status of 400 or more, Stream fails with an error that holds
\* the status code and the body text, starts no producer and has closed the
\* body; for a lower status it returns no error and the body is open until
\* the producer closes it.
C10_ErrorStatus ==
    (call # "idle" /\ resp.fail = "") =>
        IF resp.status >= ErrorStatus
        THEN /\ call = "failed"
             /\ Contains(retErr, Digits(resp.status))
             /\ Contains(retErr, resp.text)
             /\ pc = "none"
             /\ bodyCloses = 1
        ELSE /\ call = "streaming"
             /\ retErr = Nil
             /\ bodyCloses > 0 => ProducerGone
C10_Witness ==
    /\ call = "failed"
    /\ resp.status = 500
    /\ resp.text = <<"server error">>

\* A line that carries a frame which fails JSON decoding: for the two
\* event-stream adapters a data: line whose payload is not JSON (and is
\* not the sentinel, which groq never decodes), for ollama any line that
\* is not a JSON value.
Malformed(a, line) ==
    IF a = "ollama" THEN ~WholeLine(line).payload.json
    ELSE /\ HasPrefix(line, "data:")
         /\ ~line.payload.json
         /\ a = "groq" => line.payload.word # "[DONE]"

\* The body with its line i taken out.
Without(lines, i) ==
    SubSeq(lines, 1, i - 1) \o SubSeq(lines, i + 1, Len(lines))

RECURSIVE EventAt(_, _, _)
\* The event type in force when line i of the body is processed.
EventAt(a, lines, i) ==
    IF i = 1 THEN NoEvent
    ELSE ProcessLine(a, lines[i - 1], EventAt(a, lines, i - 1)).ev

\* Line i of the body stands before the first terminal signal of the rest.
BeforeTerminal(a, lines, i) ==
    LET t == TerminalAt(a, Without(lines, i), 1, NoEvent)
    IN  t = 0 \/ i <= t

\* The body was read to its end or to a terminal line, nothing was
\* cancelled and the consumer drained the channel to its close.
RanToEnd ==
    /\ Streaming
    /\ drained
    /\ ~cancelled
    /\ (remote # "open" \/ TerminalAt(adapter, AllLines, 1, NoEvent) # 0)

\* C11 as stated: for every adapter, the producer does not return on a line
\* that fails JSON decoding, and a body with such a line before its first
\* terminal signal delivers what the body without that line delivers.
C11_MalformedSkipped ==
    /\ [][(pc = "check" /\ ~cancelled /\ Malformed(adapter, BodyLine(pos)))
            => (pc' \in {"check", "scan"} /\ Emitted' = Emitted)]_vars
    /\ [](RanToEnd =>
            \A i \in 1..BodyLen :
                (Malformed(adapter, AllLines[i])
                 /\ BeforeTerminal(adapter, AllLines, i))
                => recvd = Fragments(adapter, Without(AllLines, i)))

\* C11, amended: the same, except for a claude data: line read while the
\* event type in force is message_stop; that line ends the stream whatever
\* its payload.
C11_MalformedSkippedUnlessStop ==
    /\ [][(/\ pc = "check"
           /\ ~cancelled
           /\ Malformed(adapter, BodyLine(pos))
           /\ ~(adapter = "claude" /\ currentEvent = Literal("message_stop")))
            => (pc' \in {"check", "scan"} /\ Emitted' = Emitted)]_vars
    /\ [](RanToEnd =>
            \A i \in 1..BodyLen :
                (/\ Malformed(adapter, AllLines[i])
                 /\ BeforeTerminal(adapter, AllLines, i)
                 /\ ~(/\ adapter = "claude"
                      /\ EventAt(adapter, AllLines, i) = Literal("message_stop")))
                => recvd = Fragments(adapter, Without(AllLines, i)))
C11_Witness ==
    /\ RanToEnd
    /\ BodyLen = 3
    /\ Malformed(adapter, AllLines[2])
    /\ recvd = <<"a", "b">>

\* A data: line whose payload is the sentinel once the prefix and the white
\* space around it are gone.
DoneLine(line) ==
    /\ line.pre = "data:"
    /\ ~line.payload.json
    /\ line.payload.word = "[DONE]"

\* C12: the groq producer returns on a data: [DONE] line without sending
\* anything; it never reads a line after it, and everything it ever emits
\* comes from the lines before it.
C12_DoneEndsStream ==
    /\ [][(/\ adapter = "groq"
           /\ pc = "check"
           /\ ~cancelled
           /\ DoneLine(BodyLine(pos)))
            => (pc' \in {"check", "closeBody"} /\ Emitted' = Emitted)]_vars
    /\ []((adapter = "groq" /\ Streaming) =>
            \A i \in 1..BodyLen :
                DoneLine(AllLines[i]) =>
                    /\ pos <= i
                    /\ (pos = i /\ pc # "check") => pc \in {"closeBody", "closeCh", "done"}
                    /\ IsPrefix(recvd \o ch,
                                Fragments(adapter, SubSeq(AllLines, 1, i - 1))))
C12_Witness ==
    /\ adapter = "groq"
    /\ ~cancelled
    /\ pc = "done"
    /\ BodyLen = 3
    /\ DoneLine(AllLines[2])
    /\ AllLines[3] = TextLine("groq", "b")
    /\ pos = 2
    /\ recvd = <<"a">>
    /\ drained

\* The producer is about to process a line it scanned with ctx not
\* cancelled, and the step is the one that processes it.
Processes == pc = "check" /\ ~cancelled /\ pc' # "check"

\* C13: on a groq data: line that decodes, the producer returns exactly
\* when the first choice's finish_reason is "stop"; with no choices, a null
\* or another finish_reason it goes on, and the text it then sends is the
\* first choice's delta.content, nothing when that is empty; the other
\* choices change nothing.
C13_FirstChoiceDecides ==
    [][(/\ adapter = "groq"
        /\ Processes
        /\ HasPrefix(BodyLine(pos), "data:")
        /\ BodyLine(pos).payload.json)
        => LET choices == BodyLine(pos).payload.choices
               stop == Len(choices) > 0 /\ choices[1].finish = <<"stop">>
               text == IF Len(choices) > 0 THEN choices[1].content ELSE ""
           IN  /\ pc' = "closeBody" <=> stop
               /\ stop => Emitted' = Emitted
               /\ (~stop /\ text # "") => (pc' = "send" /\ delta' = text)
               /\ (~stop /\ text = "") => (pc' = "scan" /\ Emitted' = Emitted)]_vars
C13_Witness ==
    /\ adapter = "groq"
    /\ ~cancelled
    /\ BodyLen = 2
    /\ AllLines[1] = Line("data:", TRUE,
                          GroqFrame(<<Choice("a", <<>>), Choice("b", <<"stop">>)>>))
    /\ AllLines[2] = Line("data:", TRUE,
                          GroqFrame(<<Choice("", <<"stop">>), Choice("b", <<>>)>>))
    /\ pos = 2
    /\ pc = "done"
    /\ recvd = <<"a">>
    /\ drained

\* An ollama line that decodes with done = true.
DoneTrue(line) == WholeLine(line).payload.json /\ WholeLine(line).payload.done

RECURSIVE Contents(_, _)
\* The non-empty message.content values of the first n lines, in order.
Contents(lines, n) ==
    IF n = 0 THEN <<>>
    ELSE LET w == WholeLine(lines[n]).payload
         IN  Contents(lines, n - 1)
             \o (IF w.json /\ w.content # "" THEN <<w.content>> ELSE <<>>)

\* C14: on an ollama line with done = true the producer sends the line's
\* content when it is not empty and then returns, and sends nothing when
\* it is empty; it never reads a line after the first such line, so a
\* consumer that drained an uncancelled stream has the contents of the
\* lines up to and including it.
C14_DoneAfterContent ==
    /\ [][(adapter = "ollama" /\ Processes /\ DoneTrue(BodyLine(pos)))
            => LET content == WholeLine(BodyLine(pos)).payload.content
               IN  IF content # ""
                   THEN pc' = "send" /\ delta' = content /\ retAfter'
                   ELSE pc' = "closeBody" /\ Emitted' = Emitted]_vars
    /\ [][(adapter = "ollama" /\ pc = "send" /\ retAfter)
            => pc' \in {"send", "closeBody"}]_vars
    /\ []((adapter = "ollama" /\ Streaming) =>
            \A i \in 1..BodyLen :
                DoneTrue(AllLines[i]) =>
                    /\ pos <= i
                    /\ IsPrefix(recvd \o ch, Contents(AllLines, i))
                    /\ (drained /\ ~cancelled /\ pos = i)
                          => recvd = Contents(AllLines, i))
C14_Witness ==
    /\ adapter = "ollama"
    /\ ~cancelled
    /\ drained
    /\ BodyLen = 3
    /\ AllLines[2] = Line("", FALSE, OllamaFrame("b", TRUE))
    /\ AllLines[3] = Line("", FALSE, OllamaFrame("a", FALSE))
    /\ pos = 2
    /\ recvd = <<"a", "b">>

\* C15: a line of the claude stream makes the producer send a fragment
\* exactly when it is a data: line read under the event type
\* content_block_delta whose payload decodes with delta.type "text_delta"
\* and a non-empty delta.text, and the fragment is that text; every other
\* line (a data: line under another event type, an event: line, a line
\* without prefix) leaves the channel as it is.
C15_OnlyTextDeltas ==
    [][(adapter = "claude" /\ Processes)
        => LET line == BodyLine(pos)
               yields == /\ line.pre = "data:"
                         /\ currentEvent.payload.word = "content_block_delta"
                         /\ line.payload.json
                         /\ line.payload.dtype = "text_delta"
                         /\ line.payload.dtext # ""
           IN  /\ pc' = "send" <=> yields
               /\ yields => delta' = line.payload.dtext
               /\ ~yields => Emitted' = Emitted]_vars
C15_Witness ==
    /\ adapter = "claude"
    /\ ~cancelled
    /\ drained
    /\ BodyLen = 2
    /\ AllLines[1] = Line("event:", TRUE, NotJson("content_block_delta"))
    /\ AllLines[2] = Line("data:", TRUE, ClaudeFrame("text_delta", "a"))
    /\ recvd = <<"a">>

\* An event: line that names the event type message_stop.
StopEvent(line) == line.pre = "event:" /\ line.payload.word = "message_stop"

\* Line i is a data: line and the last event: line before it names
\* message_stop.
StopData(lines, i) ==
    /\ lines[i].pre = "data:"
    /\ \E j \in 1..(i - 1) :
          /\ StopEvent(lines[j])
          /\ \A k \in (j + 1)..(i - 1) : lines[k].pre # "event:"

\* C16 as stated: the claude producer returns on the event: message_stop
\* line itself, reads no line after it and emits nothing that stands
\* after it.
C16_StopEventEnds ==
    (adapter = "claude" /\ Streaming) =>
        \A i \in 1..BodyLen :
            StopEvent(AllLines[i]) =>
                /\ pos <= i
                /\ IsPrefix(recvd \o ch,
                            Fragments(adapter, SubSeq(AllLines, 1, i - 1)))

\* C16, amended: the claude producer returns exactly on a data: line read
\* while the event type in force is message_stop, whatever the payload of
\* that line; it reads no line after it and emits nothing that stands
\* after it.  The event: message_stop line alone does not end the stream.
C16_StopDataEnds ==
    /\ [][(adapter = "claude" /\ Processes)
            => /\ pc' = "closeBody"
                    <=> /\ BodyLine(pos).pre = "data:"
                        /\ currentEvent.payload.word = "message_stop"
               /\ pc' = "closeBody" => Emitted' = Emitted]_vars
    /\ []((adapter = "claude" /\ Streaming) =>
            \A i \in 1..BodyLen :
                StopData(AllLines, i) =>
                    /\ pos <= i
                    /\ IsPrefix(recvd \o ch,
                                Fragments(adapter, SubSeq(AllLines, 1, i - 1))))
C16_Witness ==
    /\ adapter = "claude"
    /\ ~cancelled
    /\ drained
    /\ BodyLen = 3
    /\ StopEvent(AllLines[1])
    /\ AllLines[2] = Line("data:", TRUE, ClaudeFrame("text_delta", "a"))
    /\ AllLines[3] = Line("data:", TRUE, ClaudeFrame("text_delta", "b"))
    /\ pos = 2
    /\ recvd = <<>>

\* What the caller of Stream can observe: the error Stream returned, the
\* fragments received and whether the channel was seen closed.
Observed == [err |-> retErr, fragments |-> recvd, closed |-> drained]

\* C17: however the body ended, by EOF or by a read failure, a caller that
\* drained an uncancelled stream observes the same thing: no error, the
\* fragments of the delivered lines up to the first terminal one, and the
\* close.  No error appears once Stream has returned the channel.
C17_FailureLooksLikeEnd ==
    /\ [][Streaming => Observed'.err = Nil]_vars
    /\ []((Streaming /\ remote \in {"eof", "err"} /\ drained /\ ~cancelled)
            => Observed = [err |-> Nil,
                           fragments |-> Fragments(adapter, AllLines),
                           closed |-> TRUE])
C17_Witness ==
    /\ remote = "err"
    /\ ~cancelled
    /\ TerminalAt(adapter, AllLines, 1, NoEvent) = 0
    /\ BodyLen = 2
    /\ Observed = [err |-> Nil, fragments |-> <<"a", "b">>, closed |-> TRUE]

\* No request is made after the one doPost makes; after a read failure the
\* producer closes the channel, and a consumer that saw the close has
\* every fragment that was emitted.
NoSecondRequest ==
    /\ [][call # "idle" => posts' = posts]_vars
    /\ []((Streaming /\ remote = "err" /\ pc = "done")
            => (chCloses = 1 /\ bodyCloses = 1))
    /\ []((Streaming /\ remote = "err" /\ drained)
            => /\ pc = "done"
               /\ ch = <<>>
               /\ IsPrefix(recvd, Fragments(adapter, AllLines)))

FrameText(a, line) ==
    LET w == IF a = "ollama" THEN WholeLine(line).payload ELSE line.payload
    IN  IF ~w.json THEN ""
        ELSE CASE a = "groq" -> IF Len(w.choices) > 0
                                THEN w.choices[1].content ELSE ""
               [] a = "ollama" -> w.content
               [] a = "claude" -> w.dtext

\* C19: no empty string is ever on the channel or received, the producer
\* is never at a send with an empty text, and a line whose text field is
\* empty takes the producer to no send and leaves the channel alone.
C19_NoEmptyFragment ==
    /\ [](/\ \A i \in 1..Len(ch) : ch[i] # ""
          /\ \A i \in 1..Len(recvd) : recvd[i] # ""
          /\ pc = "send" => delta # "")
    /\ [][(Processes /\ FrameText(adapter, BodyLine(pos)) = "")
            => (pc' # "send" /\ Emitted' = Emitted)]_vars
C19_Witness ==
    /\ Streaming
    /\ ~cancelled
    /\ drained
    /\ BodyLen = 3
    /\ FrameText(adapter, AllLines[1]) = "a"
    /\ AllLines[2].payload.json
    /\ FrameText(adapter, AllLines[2]) = ""
    /\ FrameText(adapter, AllLines[3]) = "b"
    /\ recvd = <<"a", "b">>

\* NewClientFromConfig has returned.
Constructed == client # NoClient \/ newErr # NoError

\* Two characters that differ at most in case.
SameLetter(c, d) ==
    \/ c = d
    \/ \E k \in 1..Len(UpperCase) :
          {c, d} = {UpperCase[k], LowerCase[k]}

\* strings.EqualFold on provider names.
EqualFold(s, t) ==
    Len(s) = Len(t) /\ \A i \in 1..Len(s) : SameLetter(s[i], t[i])

\* The name is one of the three recognized ones, whatever its case.
Recognized(name) ==
    \E n \in {<<"g", "r", "o", "q">>, <<"o", "l", "l", "a", "m", "a">>,
              <<"c", "l", "a", "u", "d", "e">>} : EqualFold(name, n)

\* No client, and an AppError that quotes the name and lists the options.
RejectedAsUnknown ==
    /\ client = NoClient
    /\ newErr.kind = "AppError"
    /\ Contains(newErr.msg, Quote(cfg.AIProvider))
    /\ \A option \in {"groq", "ollama", "claude"} :
          Contains(newErr.msg, <<option>>)

\* C20 as stated: for every provider name that is not one of the three
\* recognized ones, NewClientFromConfig returns no client and an error that
\* names the value and lists the options, and no request was made.
C20_UnknownProviderRejected ==
    Constructed =>
        /\ posts = 0
        /\ ~Recognized(cfg.AIProvider) => RejectedAsUnknown

\* C20, amended: the same for every non-empty name; the empty name is
\* taken for groq, which gives the groq client when an API key is set and
\* the missing-key error when none is.
C20_UnknownNonEmptyProviderRejected ==
    Constructed =>
        /\ posts = 0
        /\ call = "idle"
        /\ (cfg.AIProvider # <<>> /\ ~Recognized(cfg.AIProvider))
              => RejectedAsUnknown
        /\ cfg.AIProvider = <<>> =>
              IF cfg.APIKey = ""
              THEN client = NoClient /\ newErr.kind = "AppError"
              ELSE client.kind = "groq" /\ newErr = NoError
C20_Witness ==
    /\ Constructed
    /\ cfg.AIProvider = <<"G", "P", "T">>
    /\ client = NoClient
    /\ newErr.msg = <<"unknown ai_provider ", "\"", "G", "P", "T", "\"",
                      " (valid: ", "groq", ", ", "ollama", ", ", "claude", ")">>

\* The name selects a cloud provider: groq, also by the empty name, or
\* claude, whatever the case.
CloudProvider(name) ==
    \/ name = <<>>
    \/ EqualFold(name, <<"g", "r", "o", "q">>)
    \/ EqualFold(name, <<"c", "l", "a", "u", "d", "e">>)

\* C21: with a cloud provider and an empty api key NewClientFromConfig
\* returns an AppError and no client; with a key it returns the client and
\* no error; for ollama it returns the ollama client whether or not a key
\* is set; no request is made in any case.
C21_CloudNeedsKey ==
    Constructed =>
        /\ posts = 0
        /\ call = "idle"
        /\ CloudProvider(cfg.AIProvider) =>
              IF cfg.APIKey = ""
              THEN client = NoClient /\ newErr.kind = "AppError"
              ELSE client.kind \in {"groq", "claude"} /\ newErr = NoError
        /\ EqualFold(cfg.AIProvider, <<"o", "l", "l", "a", "m", "a">>) =>
              client.kind = "ollama" /\ newErr = NoError
C21_Witness ==
    /\ Constructed
    /\ cfg.AIProvider = <<"C", "L", "A", "U", "D", "E">>
    /\ cfg.APIKey = ""
    /\ client = NoClient
    /\ newErr = AppError(<<"api_key is required for claude provider">>)

\* What NewClientFromConfig came back with: the client, and which error.
Outcome(r) ==
    [client |-> r.client,
     err |-> IF r.err = NoError THEN "" ELSE Head(r.err.msg)]

\* C22: the outcome of NewClientFromConfig for a configuration is the
\* outcome for every configuration that differs from it only in the letter
\* case of the provider name, and the empty name gives the very client and
\* error that "groq" gives with the same key, model and host.
C22_CaseAndDefault ==
    Constructed =>
        /\ \A other \in Configs :
              (/\ EqualFold(other.AIProvider, cfg.AIProvider)
               /\ other.AIModel = cfg.AIModel
               /\ other.APIKey = cfg.APIKey
               /\ other.OllamaHost = cfg.OllamaHost)
              => Outcome(NewClientFromConfig(other))
                    = Outcome([client |-> client, err |-> newErr])
        /\ cfg.AIProvider = <<>> =>
              NewClientFromConfig([cfg EXCEPT !.AIProvider = <<"g", "r", "o", "q">>])
                 = [client |-> client, err |-> newErr]
C22_Witness ==
    /\ Constructed
    /\ cfg.AIProvider = <<"G", "R", "O", "Q">>
    /\ cfg.APIKey = "key"
    /\ client.kind = "groq"

\* The producer is running its deferred calls or has returned.
Leaving == pc \in {"closeBody", "closeCh", "done"}

\* C29: once ctx is cancelled the producer enqueues at most one more
\* fragment: a fragment is enqueued only by the send the producer is at,
\* one at a time, and that send is left for good, since after it the
\* producer goes on to the next Scan or returns, a cancelled Check always
\* returns, and a producer that is returning never loops again.
C29_OneMoreAfterCancel ==
    [][cancelled =>
          /\ Emitted' > Emitted =>
                /\ pc = "send"
                /\ Emitted' = Emitted + 1
                /\ pc' \in {"scan", "closeBody"}
          /\ pc = "send" /\ pc' # pc => pc' \in {"scan", "closeBody"}
          /\ pc = "scan" /\ pc' # pc => pc' \in {"check", "closeBody"}
          /\ pc = "check" /\ pc' # pc => pc' = "closeBody"
          /\ Leaving => Leaving' /\ pos' = pos]_vars
C29_Witness ==
    /\ cancelled
    /\ pc = "closeCh"
    /\ delta # ""
    /\ ~retAfter
    /\ Emitted = 1
    /\ pos = 2
    /\ pos < BodyLen

\* C30: the channel is closed only by a producer that has closed the body
\* before; whenever the channel is closed the body has been closed, once,
\* and so it has when the consumer has seen the end of the fragments.
C30_BodyClosedBeforeChannel ==
    /\ [](chCloses > 0 => bodyCloses = 1)
    /\ [](drained => bodyCloses = 1 /\ chCloses = 1)
    /\ [][chCloses' > chCloses => bodyCloses = 1 /\ bodyCloses' = 1]_vars
C30_Witness ==
    /\ drained
    /\ chCloses = 1
    /\ bodyCloses = 1
    /\ recvd # <<>>
    /\ adapter = "ollama"

\* The producer is at a send with the buffer full, nothing closed yet.
Blocked ==
    /\ pc = "send"
    /\ Len(ch) = ChanCap
    /\ chCloses = 0
    /\ bodyCloses = 0

\* C25: with a consumer that receives nothing and a context that is not
\* cancelled, the producer of a response of more than 64 fragments comes to
\* a send with 64 fragments pending, having enqueued no more than these;
\* as long as nothing is received and ctx is not cancelled it stays at that
\* send, reads no further line, and neither the channel nor the body is
\* closed.
C25_BlocksOnFullBuffer ==
    /\ (Streaming /\ recvd = <<>> /\ ~cancelled)
          ~> (cancelled \/ recvd # <<>> \/ (Blocked /\ Emitted = ChanCap))
    /\ [](Len(ch) <= ChanCap)
    /\ [](pc = "send" /\ Len(ch) = ChanCap => Blocked)
    /\ [][(Blocked /\ ~cancelled' /\ recvd' = recvd)
            => (Blocked' /\ pos' = pos /\ ch' = ch /\ delta' = delta)]_vars
C25_Witness ==
    /\ Blocked
    /\ ~cancelled
    /\ recvd = <<>>
    /\ pos < BodyLen
    /\ remote = "eof"

\* s without the slashes it ends in: its longest prefix that is empty or
\* ends in another character.
StripSlashes(s) ==
    LET n == CHOOSE k \in 0..Len(s) :
                 /\ k = 0 \/ s[k] # "/"
                 /\ \A i \in (k + 1)..Len(s) : s[i] = "/"
    IN  SubSeq(s, 1, n)

\* C23: the factory hands ollama_host to the ollama client as configured,
\* empty included; Stream on that client posts to the configured host
\* without its trailing slashes followed by /api/chat, and to
\* http://localhost:11434/api/chat when the configured host is empty.
C23_OllamaURL ==
    /\ client.kind = "ollama" => client.host = cfg.OllamaHost
    /\ call = "idle" => url = <<>> /\ posts = 0
    /\ (call # "idle" /\ client.kind = "ollama") =>
          /\ posts <= 1
          /\ url = (IF cfg.OllamaHost = <<>>
                    THEN <<"http:", "/", "/", "localhost:11434">>
                    ELSE StripSlashes(cfg.OllamaHost))
                   \o <<"/", "api", "/", "chat">>
C23_Witness ==
    /\ client.kind = "ollama"
    /\ cfg.OllamaHost = <<"http:", "/", "/", "host", "/", "/">>
    /\ call = "streaming"
    /\ posts = 1
    /\ url = <<"http:", "/", "/", "host", "/", "api", "/", "chat">>

\* The tool has exited: with what status, and what it had written.
Exited == exitCode # NotExited
AllButLast(s) == SubSeq(s, 1, Len(s) - 1)

Stored(item) ==
    [item EXCEPT !.text = [i \in 1..Len(item.text) |->
                              IF item.text[i] = "\\xff" THEN "\\ufffd"
                              ELSE item.text[i]]]
StoredAll(items) == [i \in 1..Len(items) |-> Stored(items[i])]
DirError == <<"store: cannot create directory ", "dir", ": ", "cause">>

Sent == recvd \o ch
Sent2 == second.recvd \o second.ch
\* The variables of the first call and of its consumer.
firstCall ==
    <<cancelled, call, producerVars, ch, chCloses, bodyCloses, panicked,
      recvd, drained>>

\* C24: with two calls of Stream on one client, each channel carries
\* fragments of its own call's response body only, in their order; a
\* channel gets a fragment only from its own producer at its send and is
\* closed only by that producer, once; a step of one call, its cancellation
\* included, changes nothing of the other call; and a call whose context is
\* not cancelled delivers all of its fragments whether or not the other
\* call was cancelled.
C24_CallsAreIndependent ==
    /\ [](IsPrefix(Sent, Fragments(adapter, AllLines)))
    /\ [](IsPrefix(Sent2, Fragments(adapter, SecondBody)))
    /\ [](chCloses <= 1 /\ second.chCloses <= 1)
    /\ [](~panicked /\ ~second.panicked)
    /\ []((drained /\ ~cancelled) => recvd = Fragments(adapter, AllLines))
    /\ []((second.drained /\ ~second.cancelled)
             => second.recvd = Fragments(adapter, SecondBody))
    /\ [][Sent' # Sent => pc = "send" /\ pc' # "send" /\ second' = second]_vars
    /\ [][Sent2' # Sent2 =>
             /\ second.pc = "send" /\ second'.pc # "send"
             /\ UNCHANGED firstCall]_vars
    /\ [][chCloses' # chCloses => pc = "closeCh" /\ second' = second]_vars
    /\ [][second'.chCloses # second.chCloses =>
             second.pc = "closeCh" /\ UNCHANGED firstCall]_vars
    /\ [][cancelled' # cancelled => second' = second]_vars
    /\ [][second'.cancelled # second.cancelled => UNCHANGED firstCall]_vars
C24_Witness ==
    /\ cancelled
    /\ pc = "done"
    /\ pos < BodyLen
    /\ ~second.cancelled
    /\ second.drained
    /\ second.recvd = <<"x", "y">>
    /\ second.posts = 1
    /\ posts = 1

\* A frame that carries the terminal signal of its adapter along with text:
\* a groq data: frame whose first choice has finish_reason "stop", an
\* ollama line with done = true.
TerminalFrame(a, line) ==
    CASE a = "groq" -> /\ HasPrefix(line, "data:")
                       /\ line.payload.json
                       /\ Len(line.payload.choices) > 0
                       /\ line.payload.choices[1].finish = <<"stop">>
      [] a = "ollama" -> DoneTrue(line)
      [] OTHER -> FALSE
\* The text the frame carries.
TerminalText(a, line) ==
    IF a = "groq" THEN line.payload.choices[1].content
    ELSE WholeLine(line).payload.content

\* C31: the groq producer emits nothing from a frame whose first choice
\* has finish_reason "stop", whatever text the frame carries, while the
\* ollama producer emits the non-empty content of its done = true line and
\* then ends; in both the terminal frame is the last line processed, so a
\* consumer that drained the stream has the fragments of the lines before
\* it, followed for ollama alone by the text of the terminal frame.
C31_TerminalFrameText ==
    /\ [][(/\ adapter \in {"groq", "ollama"}
           /\ Processes
           /\ TerminalFrame(adapter, BodyLine(pos))
           /\ TerminalText(adapter, BodyLine(pos)) # "")
            => IF adapter = "groq"
               THEN pc' = "closeBody" /\ Emitted' = Emitted
               ELSE /\ pc' = "send"
                    /\ delta' = TerminalText(adapter, BodyLine(pos))
                    /\ retAfter']_vars
    /\ []((adapter \in {"groq", "ollama"} /\ Streaming) =>
            \A i \in 1..BodyLen :
                TerminalFrame(adapter, AllLines[i]) =>
                    /\ pos <= i
                    /\ (drained /\ ~cancelled /\ pos = i) =>
                          recvd = Fragments(adapter, SubSeq(AllLines, 1, i - 1))
                                  \o (IF /\ adapter = "ollama"
                                         /\ TerminalText(adapter, AllLines[i]) # ""
                                      THEN <<TerminalText(adapter, AllLines[i])>>
                                      ELSE <<>>))
C31_Witness ==
    /\ adapter = "groq"
    /\ ~cancelled
    /\ drained
    /\ pc = "done"
    /\ BodyLen = 2
    /\ AllLines[1] = TextLine("groq", "a")
    /\ AllLines[2] = Line("data:", TRUE, GroqFrame(<<Choice("b", <<"stop">>)>>))
    /\ pos = 2
    /\ recvd = <<"a">>
C31_WitnessOllama ==
    /\ adapter = "ollama"
    /\ ~cancelled
    /\ drained
    /\ pc = "done"
    /\ BodyLen = 2
    /\ AllLines[1] = TextLine("ollama", "a")
    /\ AllLines[2] = Line("", FALSE, OllamaFrame("b", TRUE))
    /\ pos = 2
    /\ recvd = <<"a", "b">>

RECURSIVE LastEventWord(_, _)
\* The event type named by the last event: line among the first n lines,
\* the empty string when there is none.
LastEventWord(lines, n) ==
    IF n = 0 THEN ""
    ELSE IF lines[n].pre = "event:" THEN lines[n].payload.word
    ELSE LastEventWord(lines, n - 1)

\* C32: in the claude producer the event type is empty until the first
\* event: line, is set by every event: line to the type it names and is
\* changed by no other step: when a line is about to be processed the
\* event type is the one named by the last event: line before it.  A data:
\* line before the first event: line therefore sends nothing, and every
\* text_delta data: line that follows an event: content_block_delta line
\* with no other event: line in between sends its text.
C32_EventTypeCarried ==
    /\ [][adapter = "claude" =>
            /\ currentEvent' # currentEvent
                  => (Processes /\ BodyLine(pos).pre = "event:")
            /\ (Processes /\ BodyLine(pos).pre = "event:")
                  => currentEvent'.payload.word = BodyLine(pos).payload.word
            /\ (/\ Processes
                /\ BodyLine(pos).pre = "data:"
                /\ LastEventWord(AllLines, pos - 1) = "")
                  => (pc' = "scan" /\ Emitted' = Emitted)
            /\ (/\ Processes
                /\ BodyLine(pos).pre = "data:"
                /\ LastEventWord(AllLines, pos - 1) = "content_block_delta"
                /\ BodyLine(pos).payload.json
                /\ BodyLine(pos).payload.dtype = "text_delta"
                /\ BodyLine(pos).payload.dtext # "")
                  => (pc' = "send" /\ delta' = BodyLine(pos).payload.dtext)]_vars
    /\ []((adapter = "claude" /\ Streaming /\ pc = "check")
            => currentEvent.payload.word = LastEventWord(AllLines, pos - 1))
    /\ []((adapter = "claude" /\ Streaming
           /\ \A i \in 1..pos : BodyLine(i).pre # "event:")
            => currentEvent = NoEvent)
C32_Witness ==
    /\ adapter = "claude"
    /\ ~cancelled
    /\ drained
    /\ pc = "done"
    /\ BodyLen = 3
    /\ AllLines[1] = Line("event:", TRUE, NotJson("content_block_delta"))
    /\ AllLines[2] = Line("data:", TRUE, ClaudeFrame("text_delta", "a"))
    /\ AllLines[3] = Line("data:", TRUE, ClaudeFrame("text_delta", "b"))
    /\ recvd = <<"a", "b">>
C32_WitnessBlank ==
    /\ adapter = "claude"
    /\ ~cancelled
    /\ drained
    /\ pc = "done"
    /\ BodyLen = 3
    /\ AllLines[1] = Line("event:", TRUE, NotJson("content_block_delta"))
    /\ AllLines[2] = Line("", FALSE, NotJson(""))
    /\ AllLines[3] = Line("data:", TRUE, ClaudeFrame("text_delta", "b"))
    /\ recvd = <<"b">>
C32_WitnessEarlyData ==
    /\ adapter = "claude"
    /\ ~cancelled
    /\ drained
    /\ pc = "done"
    /\ BodyLen = 3
    /\ AllLines[1] = Line("data:", TRUE, ClaudeFrame("text_delta", "a"))
    /\ AllLines[2] = Line("event:", TRUE, NotJson("content_block_delta"))
    /\ AllLines[3] = Line("data:", TRUE, ClaudeFrame("text_delta", "b"))
    /\ recvd = <<"b">>

\* The entries the store's file holds.
Stored36 == IF file.exists THEN UnmarshalItems(file).items ELSE <<>>
\* The entries of a sequence whose ID, or the first 8 characters of whose
\* ID, is id.
Matches(entries, id) ==
    { i \in 1..Len(entries) :
        entries[i].id = id \/ SubSeq(entries[i].id, 1, 8) = id }
First(S) == CHOOSE i \in S : \A j \in S : i <= j

\* C36: pin rm <id> that returns nil has removed exactly the first stored
\* entry whose ID or 8-character short ID is the argument and has saved
\* the others as they were, in their order; when no entry matches it
\* returns an error and writes neither the store's file nor its temporary
\* file; whatever it returns, the file holds the entries it held or those
\* without that first match.
C36_RmRemovesFirstMatch ==
    [][lastOp' = "rm" =>
         LET old == Stored36
             id == args'[2]
             hits == Matches(old, id)
         IN  /\ hits = {} => (storeErr' # Nil /\ file' = file /\ tmp' = tmp)
             /\ storeErr' = Nil =>
                   /\ hits # {}
                   /\ Stored36' = SubSeq(old, 1, First(hits) - 1)
                                  \o SubSeq(old, First(hits) + 1, Len(old))
                   /\ Len(Stored36') = Len(old) - 1
                   /\ stdout' = <<<<"removed ">> \o id>>
             /\ storeErr' # Nil => (file' = file /\ stdout' = <<>>)]_vars
C36_Witness ==
    /\ lastOp = "rm"
    /\ storeErr = Nil
    /\ args[2] = <<"1", "7", "3", "0", "0", "0", "0", "0">>
    /\ Len(appended) = 3
    /\ Stored36 = <<appended[2], appended[3]>>
C36_WitnessNoMatch ==
    /\ lastOp = "rm"
    /\ args[2] = <<"x">>
    /\ storeErr = <<"no entry with id ", "x">>
    /\ Len(Stored36) = 2

\* C37: every stored pin entry is found under the short ID printed for
\* it: findByID on the stored entries with the first 8 characters of an
\* entry's ID returns that entry.
C37_ShortIDFindsEntry ==
    \A i \in 1..Len(Stored36) :
        /\ findByID(Stored36, shortID(Stored36[i].id)).err = Nil
        /\ findByID(Stored36, shortID(Stored36[i].id)).idx = i

\* The process in Append and the process in Load.
Writer == procs[1]
Reader == procs[2]
\* Items as they come back from their encoding.
Decoded(items) == UnmarshalItems(MarshalIndent(items)).items
\* The process in Append holds the items it loaded and its own after them.
WriterAppended ==
    Writer.pc \in {"saveDir", "encode", "open", "write", "rename", "done"}
        /\ Len(Writer.items) > 0

\* C34: Save replaces the file in one step.  The store's file is only ever
\* changed by the rename of a temporary file that holds the full encoding
\* of the items, so the file is a complete encoding at every moment; a Load
\* that runs while the Save runs never fails to decode and returns the
\* items from before the Save or the items the Save writes; and a step in
\* which Save returns an error, from encoding, from writing the temporary
\* file or from the rename, leaves the file as it was.
C34_SaveIsAtomic ==
    /\ [](file.exists => file.valid)
    /\ [][file' # file =>
            \E p \in DOMAIN procs :
                /\ procs[p].pc = "rename"
                /\ procs'[p].pc = "done"
                /\ procs'[p].err = Nil
                /\ tmp = MarshalIndent(procs[p].items)
                /\ file' = tmp]_vars
    /\ [][\A p \in DOMAIN procs :
            (procs[p].err = Nil /\ procs'[p].err # Nil) => file' = file]_vars
    /\ []((Reader.pc = "done" /\ Reader.err # Nil)
            => Reader.err[1] # "store: decode ")
    /\ []((Reader.pc = "done" /\ Reader.err = Nil)
            => IF WriterAppended
               THEN Reader.items \in { AllButLast(Decoded(Writer.items)),
                                       Decoded(Writer.items) }
               ELSE Reader.items = Stored36)
C34_Witness ==
    /\ Writer.pc = "rename"
    /\ Len(Writer.items) = 2
    /\ tmp = MarshalIndent(Writer.items)
    /\ Reader.pc = "done"
    /\ Reader.err = Nil
    /\ Reader.items = AllButLast(Decoded(Writer.items))
C34_WitnessNew ==
    /\ Writer.pc = "done"
    /\ Writer.err = Nil
    /\ Len(Writer.items) = 2
    /\ Reader.pc = "done"
    /\ Reader.err = Nil
    /\ Reader.items = Decoded(Writer.items)
C34_WitnessWriteError ==
    /\ Writer.pc = "done"
    /\ Writer.err = <<"store: write temp file: ", "cause">>
    /\ tmp = CutShort
    /\ Len(Writer.items) = 2
    /\ Stored36 = AllButLast(Decoded(Writer.items))

\* C35: when two Append calls on the same path have both returned nil, the
\* store's file holds both appended items.
C35_BothAppendsStored ==
    (\A p \in DOMAIN procs : procs[p].pc = "done" /\ procs[p].err = Nil)
        => \A p \in DOMAIN procs :
              \E k \in 1..Len(Stored36) :
                  Stored36[k] = Decoded(<<procs[p].item>>)[1]

\* git has written nothing but white space.
Blank(out) == \A i \in 1..Len(out) : out[i] \in {" ", "\n", "\t", "\r"}
\* Nothing of the client's side has happened: no configuration loaded, no
\* client built, no Stream call, no request sent.
NoClientYet ==
    /\ ~git.config
    /\ client = NoClient
    /\ newErr = NoError
    /\ call = "idle"
    /\ posts = 0

\* C33: in diff and stand, once git has written nothing or white space
\* alone the only step is the one that prints the tool's line for that on
\* stdout and ends the run with status 0; the configuration is never
\* loaded, no client is built and no request is sent.  The configuration
\* is loaded, a client built and Stream called only after git has written
\* something else.
C33_NothingFoundBeforeClient ==
    /\ []((git.tool # "none" /\ (~git.ran \/ Blank(git.out))) => NoClientYet)
    /\ []((git.ran /\ Blank(git.out) /\ exitCode = 0)
            => /\ stdout = (IF git.tool = "diff" THEN <<"No changes found.">>
                            ELSE <<"No commits found since ", "since", ".">>)
                           \o <<"\n">>
               /\ stderr = <<>>)
    /\ [][(git.ran /\ Blank(git.out) /\ exitCode = NotExited)
            => (exitCode' = 0 /\ Len(stdout') > 0 /\ NoClientYet')]_vars
    /\ [][(~NoClientYet') => (git.ran /\ ~Blank(git.out))]_vars
C33_Witness ==
    /\ git.tool = "diff"
    /\ git.ran
    /\ git.out = <<"\n", " ">>
    /\ exitCode = 0
    /\ stdout = <<"No changes found.", "\n">>
    /\ NoClientYet
C33_WitnessStand ==
    /\ git.tool = "stand"
    /\ git.ran
    /\ git.out = <<>>
    /\ exitCode = 0
    /\ NoClientYet
C33_WitnessText ==
    /\ git.tool = "stand"
    /\ git.out = <<" ", "x", "\n">>
    /\ call = "streaming"
    /\ posts = 1
    /\ exitCode = 0

====
